---- MODULE Spec2Model ----
(***************************************************************************)
(* Backend resolution, backend cache, voice resolution, synthesis, cloning *)
(* and the fallback audio codec of chatterbox_demo.py; the Gradio wrappers *)
(* and HTTP routes of app.py and app-cloudrun.py; the model loading and    *)
(* transcription of whisper_demo.py; the retry loop of download_models.py; *)
(* the voice conversion job of src/handler.py.                             *)
(*                                                                         *)
(* chatterbox_demo.py as published has a `try:` (line 59) with no handler  *)
(* of its own.  The model reads it the only way the nesting allows: an     *)
(* exception leaving the alternative-library block is handled by the       *)
(* function's outermost `except Exception` (lines 120-122).                *)
(***************************************************************************)
EXTENDS Integers, Sequences, FiniteSets, TLC

(* ------------------------------ bounds -------------------------------- *)
\* top-level calls each thread makes in one behaviour
MaxCalls == 2
\* length of the longest text handed to the fallback codec
MaxTextLen == 52

(* ------------------------------ texts --------------------------------- *)
\* A Python str is a sequence of characters; None is kept apart from "".
Chars == {"a", " "}
Str(s) == [none |-> FALSE, s |-> s]
NoneText == [none |-> TRUE, s |-> <<>>]
Rep(c, n) == [i \in 1..n |-> c]

\* str.strip(): drop leading and trailing whitespace
RECURSIVE LStrip(_)
LStrip(s) == IF s # <<>> /\ Head(s) = " " THEN LStrip(Tail(s)) ELSE s
RECURSIVE RStrip(_)
RStrip(s) ==
  IF s # <<>> /\ s[Len(s)] = " " THEN RStrip(SubSeq(s, 1, Len(s) - 1)) ELSE s
strip(s) == RStrip(LStrip(s))

\* `not text or not text.strip()`  (chatterbox_demo.py:158)
IsBlank(text) == text.none \/ text.s = <<>> \/ strip(text.s) = <<>>

\* "Please provide some text to synthesize." is 39 characters long
GuidanceLen == 39
Guidance == Str(Rep("a", GuidanceLen))

\* str.startswith(prefix)
startswith(s, prefix) ==
  Len(prefix) <= Len(s) /\ SubSeq(s, 1, Len(prefix)) = prefix
\* `sub in s`
contains(s, sub) ==
  \E i \in 0..(Len(s) - Len(sub)) : SubSeq(s, i + 1, i + Len(sub)) = sub
\* str.lower()
Capitals == ("A" :> "a") @@ ("B" :> "b") @@ ("C" :> "c") @@ ("D" :> "d") @@ ("E" :> "e") @@
            ("F" :> "f") @@ ("G" :> "g") @@ ("H" :> "h") @@ ("I" :> "i") @@ ("J" :> "j") @@
            ("K" :> "k") @@ ("L" :> "l") @@ ("M" :> "m") @@ ("N" :> "n") @@ ("O" :> "o") @@
            ("P" :> "p") @@ ("Q" :> "q") @@ ("R" :> "r") @@ ("S" :> "s") @@ ("T" :> "t") @@
            ("U" :> "u") @@ ("V" :> "v") @@ ("W" :> "w") @@ ("X" :> "x") @@ ("Y" :> "y") @@
            ("Z" :> "z")
lower(s) == [i \in 1..Len(s) |-> IF s[i] \in DOMAIN Capitals THEN Capitals[s[i]] ELSE s[i]]
\* str(n) of a positive int
RECURSIVE Decimal(_)
Decimal(n) ==
  LET digit == <<"0", "1", "2", "3", "4", "5", "6", "7", "8", "9">>[(n % 10) + 1]
  IN  IF n < 10 THEN <<digit>> ELSE Append(Decimal(n \div 10), digit)

\* the sentinel label "Default (Fallback)"
DefaultLabel == Str(<<"D", "e", "f", "a", "u", "l", "t", " ", "(", "F", "a", "l", "l", "b", "a", "c", "k", ")">>)

(* ------------------------- fallback audio codec ----------------------- *)
Min(a, b) == IF a < b THEN a ELSE b
Max(a, b) == IF a > b THEN a ELSE b

RECURSIVE Pow(_, _)
Pow(b, e) == IF e = 0 THEN 1 ELSE b * Pow(b, e - 1)

\* int.to_bytes(length, 'little')
to_bytes(n, length) == [i \in 1..length |-> (n \div Pow(256, i - 1)) % 256]

\* the value a reader decodes from little-endian bytes
RECURSIVE from_bytes(_)
from_bytes(bs) == IF bs = <<>> THEN 0 ELSE Head(bs) + 256 * from_bytes(Tail(bs))

\* b'RIFF', b'WAVE', b'fmt ', b'data'
RIFF == <<82, 73, 70, 70>>
WAVE == <<87, 65, 86, 69>>
FMT_ == <<102, 109, 116, 32>>
DATA == <<100, 97, 116, 97>>

\* A file is the sequence of runs written to it: out.write(bs) appends one
\* run per byte, out.write(b'\x00' * n) appends one run of n zero bytes.
write(file, bs) == file \o [i \in 1..Len(bs) |-> [b |-> bs[i], n |-> 1]]
write_repeat(file, byte, count) ==
  IF count > 0 THEN Append(file, [b |-> byte, n |-> count]) ELSE file

RECURSIVE FileSize(_)
FileSize(file) == IF file = <<>> THEN 0 ELSE Head(file).n + FileSize(Tail(file))

sample_rate == 22050
\* duration = min(len(text) * 0.1, 5.0), kept in tenths of a second
duration10(text) == Min(Len(text.s), 50)
\* num_samples = int(sample_rate * duration)
num_samples(text) == (sample_rate * duration10(text)) \div 10

\* the bytes create_fallback_audio writes, in the order it writes them
wav_no_riff_size(text) ==
  LET ns == num_samples(text)
      w1 == write(<<>>, RIFF)
      w2 == write(w1, to_bytes(ns * 2, 4))
      w3 == write(w2, WAVE)
      w4 == write(w3, FMT_)
      w5 == write(w4, to_bytes(16, 4))
      w6 == write(w5, to_bytes(1, 2))
      w7 == write(w6, to_bytes(1, 2))
      w8 == write(w7, to_bytes(sample_rate, 4))
      w9 == write(w8, to_bytes(sample_rate * 2, 4))
      w10 == write(w9, to_bytes(2, 2))
      w11 == write(w10, to_bytes(16, 2))
      w12 == write(w11, DATA)
      w13 == write(w12, to_bytes(ns * 2, 4))
  IN  write_repeat(w13, 0, ns * 2)
silence_wav(text) ==
  LET ns == num_samples(text)
      w1 == write(<<>>, RIFF)
      w2 == write(w1, to_bytes(36 + ns * 2, 4))
      w3 == write(w2, WAVE)
      w4 == write(w3, FMT_)
      w5 == write(w4, to_bytes(16, 4))
      w6 == write(w5, to_bytes(1, 2))
      w7 == write(w6, to_bytes(1, 2))
      w8 == write(w7, to_bytes(sample_rate, 4))
      w9 == write(w8, to_bytes(sample_rate * 2, 4))
      w10 == write(w9, to_bytes(2, 2))
      w11 == write(w10, to_bytes(16, 2))
      w12 == write(w11, DATA)
      w13 == write(w12, to_bytes(ns * 2, 4))
  IN  write_repeat(w13, 0, ns * 2)

\* What a call returns: a path to an artifact, or None.
NoArtifact == [kind |-> "None", text |-> NoneText, file |-> <<>>]
Mp3Artifact(text) == [kind |-> "mp3", text |-> text, file |-> <<>>]
WavArtifact(text) == [kind |-> "wav", text |-> text, file |-> silence_wav(text)]
OutArtifact(text) == [kind |-> "out", text |-> text, file |-> <<>>]

\* create_fallback_audio(text).  gtts is how the remote service answers
\* ("ok" or a failure), disk is whether the temporary WAV can be written.
fallback_raises_on_gtts(text, gtts, disk) ==
  IF gtts = "ok" THEN Mp3Artifact(text) ELSE NoArtifact
fallback_silence_first(text, gtts, disk) ==
  IF disk = "ok" THEN WavArtifact(text)
  ELSE IF gtts = "ok" THEN Mp3Artifact(text)
  ELSE NoArtifact
create_fallback_audio(text, gtts, disk) ==
  IF gtts = "ok" THEN Mp3Artifact(text)
  ELSE IF disk = "ok" THEN WavArtifact(text)
  ELSE NoArtifact

(* ------------------------------ backends ------------------------------ *)
\* the candidates of initialize_tts, in the order the code tries them
Candidates == <<"Method1", "Method2", "Method3", "Coqui", "gTTS", "pyttsx3">>
CandidateSet == {Candidates[i] : i \in 1..Len(Candidates)}

\* How constructing a candidate ends in a given installation.  "NoClass" is
\* Method 3 importing chatterbox and finding none of TTS, TextToSpeech,
\* Synthesizer in it.
Outcomes(c) ==
  CASE c \in {"Method1", "Method2"} ->
         {"ok", "ImportError", "AttributeError", "RuntimeError"}
    [] c = "Method3" ->
         {"ok", "ImportError", "AttributeError", "RuntimeError", "NoClass"}
    [] c = "Coqui" -> {"ok", "Exception"}
    [] c = "gTTS" -> {"ok", "ImportError"}
    [] c = "pyttsx3" -> {"ok", "ImportError", "RuntimeError"}
Envs == {e \in [CandidateSet -> {"ok", "ImportError", "AttributeError",
                                 "RuntimeError", "NoClass", "Exception"}] :
           \A c \in CandidateSet : e[c] \in Outcomes(c)}

KindOf(c) ==
  CASE c \in {"Method1", "Method2", "Method3"} -> "chatterbox"
    [] c = "Coqui" -> "coqui"
    [] c = "gTTS" -> "gtts"
    [] c = "pyttsx3" -> "pyttsx3"

\* tts_system = None
None == [kind |-> "None", id |-> 0]
\* A constructor call returns a new object; `tts_system = gTTS` binds the
\* class itself, which is the same object every time.
Backend(c, id) == [kind |-> KindOf(c), id |-> IF c = "gTTS" THEN 0 ELSE id]

\* voices: a dict ({'name':..,'language':..,'gender':..}) or a plain str.
\* A dict's name is NoneText when the dict has no 'name' key; language and
\* gender are <<>> when absent or empty.
DictVoice(n, l, g) == [dict |-> TRUE, name |-> n, language |-> l, gender |-> g]
StrVoice(n) == [dict |-> FALSE, name |-> Str(n), language |-> <<>>, gender |-> <<>>]
NoVoice == [dict |-> FALSE, name |-> NoneText, language |-> <<>>, gender |-> <<>>]
Ava == <<"A", "v", "a">>
Ben == <<"B", "e", "n">>
GoogleTTS == <<"G", "o", "o", "g", "l", "e", " ", "T", "T", "S", " ", "(">>
CoquiVoices == <<StrVoice(<<"L", "J", "S", "p", "e", "e", "c", "h">>), StrVoice(<<"D", "e", "f", "a", "u", "l", "t">>)>>
GttsVoices == <<StrVoice(GoogleTTS \o <<"E", "n", "g", "l", "i", "s", "h", ")">>),
                StrVoice(GoogleTTS \o <<"S", "p", "a", "n", "i", "s", "h", ")">>),
                StrVoice(GoogleTTS \o <<"F", "r", "e", "n", "c", "h", ")">>)>>
\* what a chatterbox backend's list_voices() may answer
SampleCatalog == <<DictVoice(Str(Ava), <<"e", "n">>, <<"f", "e", "m", "a", "l", "e">>),
                   DictVoice(Str(Ben), <<>>, <<>>)>>
ListOutcomes == {"catalog", "empty", "raise"}

\* the tuple initialize_tts returns
Result(tts, voices) == [tts |-> tts, voices |-> voices]
NoBackend == Result(None, <<>>)

(* ------------------------------- state -------------------------------- *)
Threads == {1, 2}

VARIABLES
  env,                  \* the installation: how each candidate's construction ends
  tts_system,           \* chatterbox_demo.tts_system
  available_voices,     \* chatterbox_demo.available_voices
  app_tts_system,       \* app.tts_system, bound by safe_refresh_voices
  app_available_voices, \* app.available_voices, bound by safe_refresh_voices
  nextId,               \* identity of the next constructed object
  catalogs,             \* <<backend, catalog>> pairs listed so far
  live,                 \* the threads that make calls
  texts,                \* the texts callers pass
  pc,                   \* per thread: the line it is at, or "idle"
  op,                   \* per thread: the top-level call in progress
  init,                 \* per thread: what its initialize_tts() call returned
  attempted,            \* per thread: candidates constructed during the call
  done,                 \* per thread: the last completed call
  prev,                 \* per thread: the completed call before that
  calls,                \* per thread: number of completed calls
  budget,               \* the number of calls each thread may make
  inputs,               \* the arguments of a function applied on its own
  output,               \* what that function returned
  whisper_env,          \* whisper_demo: the device and how each model loads
  model,                \* whisper_demo.model
  whisper_pc,           \* the line whisper_demo's module body is at
  transcribed,          \* the last transcription call
  whisper_tried,        \* the WhisperModel(...) constructions made, in order
  dl_env,               \* download_models: how the import and each attempt end
  attempt,              \* download_chatterbox_models: the loop variable
  slept,                \* the time.sleep() calls made, in order
  constructed,          \* the from_pretrained() calls made
  dl_pc,                \* where download_chatterbox_models is at
  dl_result,            \* what download_chatterbox_models returned
  req_pc,               \* per handler request: the line text_to_speech is at
  req_seed,             \* per handler request: job_input["seed"]
  rng,                  \* the seed the global random generators were last given
  reseeded              \* per handler request: whether it reseeded them

vars == <<env, tts_system, available_voices, app_tts_system, app_available_voices,
          nextId, catalogs, live, texts, pc, op, init, attempted, done, prev, calls,
          budget, inputs, output, whisper_env, model, whisper_pc, transcribed,
          whisper_tried, dl_env, attempt, slept, constructed, dl_pc, dl_result, req_pc, req_seed,
          rng, reseeded>>

cache == <<tts_system, available_voices, nextId, catalogs>>
appGlobals == <<app_tts_system, app_available_voices>>
\* what lies outside chatterbox_demo's calls
whisper == <<whisper_env, model, whisper_pc, transcribed, whisper_tried>>
download == <<dl_env, attempt, slept, constructed, dl_pc, dl_result>>
\* the serverless handler's concurrent text_to_speech requests
seeding == <<req_pc, req_seed, rng, reseeded>>
elsewhere == <<inputs, output, whisper, download, seeding>>
fixed == <<env, live, texts, budget, elsewhere>>
\* everything the calls of chatterbox_demo read or write
chatterbox == <<env, tts_system, available_voices, app_tts_system, app_available_voices,
                nextId, catalogs, live, texts, pc, op, init, attempted, done, prev,
                calls, budget>>

\* a module global of app.py: no such name exists until an assignment binds it
Unbound(v) == [bound |-> FALSE, value |-> v]
Bound(v) == [bound |-> TRUE, value |-> v]

\* a call in progress: ref is the reference audio of a clone call, nested the
\* call it has handed over to, created the temporary files it has made so far
NoOp == [name |-> "none", text |-> NoneText, voice |-> NoneText, ref |-> "",
         nested |-> "", created |-> <<>>, canswer |-> "none"]
NoFallback == [called |-> FALSE, text |-> NoneText, gtts |-> "", disk |-> ""]
\* what a call did after initialize_tts() (if it got that far)
NoOutcome == [resolved |-> FALSE, art |-> NoArtifact, fb |-> NoFallback, gen |-> "none",
              answer |-> "none", selected |-> NoVoice, lang |-> "", created |-> <<>>,
              raised |-> FALSE, error |-> ""]
\* a completed call
NoDone == [name |-> "none", text |-> NoneText, voice |-> NoneText, ref |-> "",
           canswer |-> "none", init |-> NoBackend, attempted |-> <<>>,
           resolved |-> FALSE, art |-> NoArtifact, fb |-> NoFallback, gen |-> "none",
           answer |-> "none", selected |-> NoVoice, lang |-> "", created |-> <<>>,
           raised |-> FALSE, error |-> ""]
NoPrev == [name |-> "none", init |-> NoBackend]
\* what the next call keeps of the one before it
Summary(d) == [name |-> d.name, init |-> d.init]

\* no function is being applied on its own
NoInputs == [name |-> "none"]
NoOutput == [returned |-> FALSE]
IdleFunction == inputs = NoInputs /\ output = NoOutput

\* whisper_demo is not imported
NoTranscription == [name |-> "none", audio |-> "", result |-> "", touched |-> FALSE,
                    raised |-> FALSE]
IdleWhisper ==
  /\ whisper_env = [device |-> "cpu", base_cuda |-> "raise", base_cpu |-> "raise",
                    tiny_cpu |-> "raise"]
  /\ model = "unbound"
  /\ whisper_pc = "L13"
  /\ transcribed = NoTranscription
  /\ whisper_tried = <<>>

\* no job is in the serverless handler; rng 0: the generators were never seeded
MaxRequests == 2
Requests == 1..MaxRequests
IdleSeeding ==
  /\ req_pc = [r \in Requests |-> "idle"]
  /\ req_seed = [r \in Requests |-> 0]
  /\ rng = 0
  /\ reseeded = [r \in Requests |-> FALSE]

\* download_models.py is not running
max_retries == 3
IdleDownload ==
  /\ dl_env = [import |-> "ImportError", errors |-> [i \in 1..max_retries |-> <<>>]]
  /\ attempt = 0
  /\ slept = <<>>
  /\ constructed = 0
  /\ dl_pc = "idle"
  /\ dl_result = "none"

InitCommon ==
  /\ IdleFunction
  /\ IdleWhisper
  /\ IdleDownload
  /\ IdleSeeding
  /\ tts_system = None
  /\ available_voices = <<>>
  /\ app_tts_system = Unbound(None)
  /\ app_available_voices = Unbound(<<>>)
  /\ nextId = 1
  /\ catalogs = {}
  /\ pc = [t \in Threads |-> "idle"]
  /\ op = [t \in Threads |-> NoOp]
  /\ init = [t \in Threads |-> NoBackend]
  /\ attempted = [t \in Threads |-> <<>>]
  /\ done = [t \in Threads |-> NoDone]
  /\ prev = [t \in Threads |-> NoPrev]
  /\ calls = [t \in Threads |-> 0]

(* --------------------------- initialize_tts --------------------------- *)
\* A step of thread t inside a call leaves these alone.
Frame(t) == UNCHANGED <<fixed, appGlobals, op, done, prev, calls>>

\* One candidate of the chain: construct it; on success bind tts_system and
\* go to okPc; on an exception the candidate's own handler catches go to
\* nextPc; on any other exception (or a `return None, []`) the call returns
\* (None, []) (lines 54, 91, 120-122).
Try(t, c, caught, okPc, nextPc) ==
  /\ attempted' = [attempted EXCEPT ![t] = Append(@, c)]
  /\ tts_system' = IF env[c] = "ok" THEN Backend(c, nextId) ELSE tts_system
  /\ nextId' = IF env[c] = "ok" /\ c # "gTTS" THEN nextId + 1 ELSE nextId
  /\ pc' = [pc EXCEPT ![t] = IF env[c] = "ok" THEN okPc
                             ELSE IF env[c] \in caught THEN nextPc
                             ELSE "return"]
  /\ init' = [init EXCEPT ![t] = NoBackend]
  /\ UNCHANGED <<available_voices, catalogs>>
  /\ Frame(t)

\* line 15-16: the cache check
CheckCache_reprobes(t) ==
  /\ pc[t] = "L15"
  /\ init' = init
  /\ pc' = [pc EXCEPT ![t] = "L24"]
  /\ UNCHANGED <<cache, attempted>>
  /\ Frame(t)
CheckCache(t) ==
  /\ pc[t] = "L15"
  /\ IF tts_system # None
       THEN /\ init' = [init EXCEPT ![t] = Result(tts_system, available_voices)]
            /\ pc' = [pc EXCEPT ![t] = "return"]
       ELSE /\ init' = init
            /\ pc' = [pc EXCEPT ![t] = "L24"]
  /\ UNCHANGED <<cache, attempted>>
  /\ Frame(t)

\* lines 23-28, 31-36, 39-56
Method1(t) ==
  /\ pc[t] = "L24"
  /\ Try(t, "Method1", {"ImportError", "AttributeError"}, "L94", "L32")
Method2(t) ==
  /\ pc[t] = "L32"
  /\ Try(t, "Method2", {"ImportError", "AttributeError"}, "L94", "L40")
Method3(t) ==
  /\ pc[t] = "L40"
  /\ Try(t, "Method3", {"ImportError", "AttributeError"}, "L94", "L64")
\* lines 63-70, 73-80, 83-91
TryCoqui(t) ==
  /\ pc[t] = "L64"
  /\ Try(t, "Coqui", {"Exception"}, "L67", "L74")
TryGtts(t) ==
  /\ pc[t] = "L74"
  /\ Try(t, "gTTS", {"ImportError"}, "L77", "L84")
TryPyttsx3(t) ==
  /\ pc[t] = "L84"
  /\ Try(t, "pyttsx3", {}, "L87", "L84")

\* lines 67-68, 77-78, 87-88: bind the fixed voice list and return the globals
FixedVoices(t, voices) ==
  /\ available_voices' = voices
  /\ catalogs' = catalogs \cup {<<tts_system, voices>>}
  /\ init' = [init EXCEPT ![t] = Result(tts_system, voices)]
  /\ pc' = [pc EXCEPT ![t] = "return"]
  /\ UNCHANGED <<tts_system, nextId, attempted>>
  /\ Frame(t)
CoquiVoicesStep(t) ==
  /\ pc[t] = "L67"
  /\ FixedVoices(t, CoquiVoices)
GttsVoicesStep(t) ==
  /\ pc[t] = "L77"
  /\ FixedVoices(t, GttsVoices)
Pyttsx3VoicesStep(t) ==
  /\ pc[t] = "L87"
  /\ FixedVoices(t, <<>>)

\* lines 94-116: list the voices of whatever tts_system now holds
Listed(answer) == IF answer = "catalog" THEN SampleCatalog ELSE <<>>
ListVoices(t) ==
  /\ pc[t] = "L94"
  /\ \E answer \in ListOutcomes :
       /\ available_voices' = Listed(answer)
       /\ catalogs' = catalogs \cup {<<tts_system, Listed(answer)>>}
  /\ pc' = [pc EXCEPT ![t] = "L118"]
  /\ UNCHANGED <<tts_system, nextId, attempted, init>>
  /\ Frame(t)

\* line 118: return tts_system, available_voices
ReturnGlobals(t) ==
  /\ pc[t] = "L118"
  /\ init' = [init EXCEPT ![t] = Result(tts_system, available_voices)]
  /\ pc' = [pc EXCEPT ![t] = "return"]
  /\ UNCHANGED <<cache, attempted>>
  /\ Frame(t)

(* --------------------------- voice resolution ------------------------- *)
\* line 177: the name of the voice at position i (enumerate counts from 0,
\* so the voice at position i here is `Voice i`)
voice_name(voices, i) ==
  IF voices[i].dict /\ voices[i].name.none
    THEN <<"V", "o", "i", "c", "e", " ">> \o Decimal(i)
    ELSE voices[i].name.s

\* lines 176-180: the first position, from i on, whose name the label starts
\* with; 0 when the loop ends without a break
RECURSIVE find_exact(_, _, _)
find_exact(voices, label, i) ==
  IF i > Len(voices) THEN 0
  ELSE IF label = voice_name(voices, i) THEN i
  ELSE find_exact(voices, label, i + 1)
RECURSIVE find_voice(_, _, _)
find_voice(voices, label, i) ==
  IF i > Len(voices) THEN 0
  ELSE IF startswith(label, voice_name(voices, i)) THEN i
  ELSE find_voice(voices, label, i + 1)

\* lines 170-184: the voice a selection label resolves to, or the IndexError
\* of voices[0] on an empty list
Selected(v) == [raised |-> FALSE, voice |-> v]
select_voice(voices, voice_selection) ==
  IF voice_selection = DefaultLabel \/ voice_selection.none \/ voice_selection.s = <<>>
    THEN Selected(IF voices # <<>> THEN voices[1] ELSE NoVoice)
    ELSE LET i == find_voice(voices, voice_selection.s, 1)
         IN  IF i # 0 THEN Selected(voices[i])
             ELSE IF voices # <<>> THEN Selected(voices[1])
             ELSE [raised |-> TRUE, voice |-> NoVoice]

\* get_voice_options lines 133-146: the dropdown label of catalog entry i
voice_label(voices, i) ==
  IF voices[i].dict
    THEN voice_name(voices, i)
           \o (IF voices[i].language # <<>>
                 THEN <<" ", "(">> \o voices[i].language \o <<")">> ELSE <<>>)
           \o (IF voices[i].gender # <<>>
                 THEN <<" ", "-", " ">> \o voices[i].gender ELSE <<>>)
    ELSE voices[i].name.s
\* get_voice_options lines 128-152, given the catalog initialize_tts() returned
get_voice_options(voices) ==
  IF voices = <<>> THEN <<DefaultLabel>>
  ELSE [i \in 1..Len(voices) |-> Str(voice_label(voices, i))] \o <<DefaultLabel>>

\* lines 202-206: the language handed to gTTS
gtts_lang(voice_selection) ==
  IF contains(lower(voice_selection.s), <<"s", "p", "a", "n", "i", "s", "h">>) THEN "es"
  ELSE IF contains(lower(voice_selection.s), <<"f", "r", "e", "n", "c", "h">>) THEN "fr"
  ELSE "en"

(* ------------------- calls: start, body and return -------------------- *)
\* how the remote fallback service answers: it needs the gtts package, and
\* then the network
GttsAnswers == IF env["gTTS"] = "ok" THEN {"ok", "Exception"} ELSE {"ImportError"}
\* whether the temporary WAV can be created and written
DiskAnswers == {"ok", "OSError"}
\* how the resolved backend's generation call ends; "unsupported" is a backend
\* with none of the methods the dispatch knows
GenAnswers == {"ok", "raise", "unsupported"}
\* lines 194-231: a chatterbox class may or may not have synthesize(); Coqui
\* has tts_to_file, gTTS is the gTTS class, pyttsx3 has say and save_to_file
SynthAnswers(tts) ==
  IF tts.kind = "chatterbox" THEN GenAnswers ELSE {"ok", "raise"}
\* lines 259-291: a chatterbox class may or may not have clone_voice() or
\* create_voice(); Coqui has tts_to_file; gTTS and pyttsx3 have neither
CloneAnswers(tts) ==
  CASE tts.kind = "chatterbox" -> GenAnswers
    [] tts.kind = "coqui" -> {"ok", "raise"}
    [] OTHER -> {"unsupported"}

Fallback(text, gtts, disk) == [called |-> TRUE, text |-> text, gtts |-> gtts, disk |-> disk]

\* the temporary files create_fallback_audio leaves behind: the .mp3 is
\* created before the service is asked (line 306), the .wav at line 315
fallback_files(gtts, disk) ==
  (IF gtts \in {"ok", "Exception"} THEN <<"mp3">> ELSE <<>>)
    \o (IF gtts # "ok" /\ disk = "ok" THEN <<"wav">> ELSE <<>>)

\* `return create_fallback_audio(text)` after the files in `opened` were made
FellBack(text, gtts, disk, opened) ==
  [NoOutcome EXCEPT !.resolved = TRUE,
                    !.art = create_fallback_audio(text, gtts, disk),
                    !.fb = Fallback(text, gtts, disk),
                    !.created = opened \o fallback_files(gtts, disk)]

\* synthesize_tts lines 168-238: the try block
generate_escapes(text, voice_selection, r, gen, gtts, disk) ==
  LET sel == select_voice(r.voices, voice_selection)
  IN  IF gen = "ok"
        THEN [NoOutcome EXCEPT !.resolved = TRUE, !.art = OutArtifact(text),
                !.gen = r.tts.kind, !.answer = "ok", !.selected = sel.voice,
                !.created = <<"out">>]
        ELSE [NoOutcome EXCEPT !.resolved = TRUE, !.gen = r.tts.kind,
                !.answer = gen, !.selected = sel.voice, !.created = <<"out">>,
                !.raised = TRUE]
generate(text, voice_selection, r, gen, gtts, disk) ==
  LET sel == select_voice(r.voices, voice_selection)
  IN  IF sel.raised THEN FellBack(text, gtts, disk, <<>>)
      ELSE IF sel.voice = NoVoice THEN FellBack(text, gtts, disk, <<>>)
      ELSE IF gen = "unsupported"
        THEN [FellBack(text, gtts, disk, <<"out">>) EXCEPT
                !.answer = gen, !.selected = sel.voice]
      ELSE IF gen = "raise"
        THEN [FellBack(text, gtts, disk, <<"out">>) EXCEPT
                !.gen = r.tts.kind, !.answer = gen, !.selected = sel.voice,
                !.lang = IF r.tts.kind = "gtts" THEN gtts_lang(voice_selection) ELSE ""]
      ELSE [NoOutcome EXCEPT !.resolved = TRUE, !.art = OutArtifact(text),
              !.gen = r.tts.kind, !.answer = gen, !.selected = sel.voice,
              !.lang = IF r.tts.kind = "gtts" THEN gtts_lang(voice_selection) ELSE "",
              !.created = <<"out">>]

\* synthesize_tts lines 164-238: after initialize_tts() returned r
synthesize_voice(text, voice_selection, r, gen, gtts, disk) ==
  IF r.tts = None \/ r.voices = <<>>
    THEN FellBack(text, gtts, disk, <<>>)
    ELSE generate(text, voice_selection, r, gen, gtts, disk)

\* the record of a completed call: what the call was, what initialize_tts()
\* gave it and what it did; the files a clone call made first come first
Completed(t, o) ==
  [name |-> op[t].name, text |-> op[t].text, voice |-> op[t].voice, ref |-> op[t].ref,
   canswer |-> op[t].canswer, init |-> init[t], attempted |-> attempted[t],
   resolved |-> o.resolved, art |-> o.art, fb |-> o.fb, gen |-> o.gen,
   answer |-> o.answer, selected |-> o.selected, lang |-> o.lang,
   created |-> op[t].created \o o.created, raised |-> o.raised,
   error |-> o.error]
\* a call that returns before initialize_tts()
Unresolved(name, text, voice, ref, o) ==
  [name |-> name, text |-> text, voice |-> voice, ref |-> ref,
   canswer |-> "none", init |-> NoBackend, attempted |-> <<>>,
   resolved |-> FALSE, art |-> o.art, fb |-> o.fb, gen |-> o.gen,
   answer |-> o.answer, selected |-> o.selected, lang |-> o.lang,
   created |-> o.created, raised |-> o.raised, error |-> o.error]

Complete(t, rec) ==
  /\ done' = [done EXCEPT ![t] = rec]
  /\ calls' = [calls EXCEPT ![t] = @ + 1]
  /\ pc' = [pc EXCEPT ![t] = "idle"]
  /\ op' = [op EXCEPT ![t] = NoOp]

CanCall(t) == t \in live /\ pc[t] = "idle" /\ calls[t] < budget

\* enter initialize_tts() at line 15, from whichever caller
Enter(t, name, text, voice) ==
  /\ op' = [op EXCEPT ![t] = [NoOp EXCEPT !.name = name, !.text = text,
                                          !.voice = voice]]
  /\ pc' = [pc EXCEPT ![t] = "L15"]
  /\ init' = [init EXCEPT ![t] = NoBackend]
  /\ attempted' = [attempted EXCEPT ![t] = <<>>]
  /\ done' = [done EXCEPT ![t] = NoDone]
  /\ prev' = [prev EXCEPT ![t] = Summary(done[t])]
  /\ UNCHANGED calls

\* initialize_tts() called directly (app.py:99, app.py:466)
Call_initialize_tts(t) ==
  /\ CanCall(t)
  /\ Enter(t, "initialize_tts", NoneText, NoneText)
  /\ UNCHANGED <<fixed, cache, appGlobals>>

\* get_voice_options(), line 126
Call_get_voice_options(t) ==
  /\ CanCall(t)
  /\ Enter(t, "get_voice_options", NoneText, NoneText)
  /\ UNCHANGED <<fixed, cache, appGlobals>>

\* safe_refresh_voices(), app.py:76-84: `global tts_system, available_voices`
\* names the globals of app.py, so the two assignments bind app.tts_system and
\* app.available_voices; then get_voice_options() runs.
Call_safe_refresh_voices(t) ==
  /\ CanCall(t)
  /\ app_tts_system' = Bound(None)
  /\ app_available_voices' = Bound(<<>>)
  /\ Enter(t, "safe_refresh_voices", NoneText, NoneText)
  /\ UNCHANGED <<fixed, cache>>

\* synthesize_tts(text, voice_selection), lines 158-162
synthesize_blank_resolves(t, text, voice) ==
  /\ CanCall(t)
  /\ Enter(t, "synthesize_tts", text, voice)
  /\ UNCHANGED <<fixed, cache, appGlobals>>
Call_synthesize_tts(t, text, voice) ==
  /\ CanCall(t)
  /\ IF IsBlank(text)
       THEN /\ \E gtts \in GttsAnswers, disk \in DiskAnswers :
                 Complete(t, Unresolved("synthesize_tts", text, voice, "",
                                [FellBack(Guidance, gtts, disk, <<>>)
                                   EXCEPT !.resolved = FALSE]))
            /\ prev' = [prev EXCEPT ![t] = Summary(done[t])]
            /\ UNCHANGED <<init, attempted>>
       ELSE Enter(t, "synthesize_tts", text, voice)
  /\ UNCHANGED <<fixed, cache, appGlobals>>

\* synthesize_tts after initialize_tts() returned r, lines 164-238
synthesize_no_none_check(t, r, gen, gtts, disk) ==
  IF gen = "ok"
    THEN Completed(t, [NoOutcome EXCEPT !.resolved = TRUE,
                         !.art = OutArtifact(op[t].text), !.gen = r.tts.kind])
    ELSE Completed(t, [FellBack(op[t].text, gtts, disk, <<>>) EXCEPT
                         !.gen = r.tts.kind])
synthesize_body(t, r, gen, gtts, disk) ==
  Completed(t, synthesize_voice(op[t].text, op[t].voice, r, gen, gtts, disk))

\* initialize_tts() returns to its caller, which finishes
Return(t) ==
  /\ pc[t] = "return"
  /\ op[t].name = "clone_voice_from_audio" => op[t].nested = "synthesize_tts"
  /\ \E gen \in SynthAnswers(init[t].tts), gtts \in GttsAnswers, disk \in DiskAnswers :
       Complete(t, IF "synthesize_tts" \in {op[t].name, op[t].nested}
                     THEN synthesize_body(t, init[t], gen, gtts, disk)
                     ELSE Completed(t, [NoOutcome EXCEPT !.resolved = TRUE]))
  /\ UNCHANGED <<fixed, cache, appGlobals, init, attempted, prev>>

\* create_fallback_audio(text) called directly (app.py:545-546)
Call_create_fallback_audio(t, text) ==
  /\ CanCall(t)
  /\ \E gtts \in GttsAnswers, disk \in DiskAnswers :
       Complete(t, Unresolved("create_fallback_audio", text, NoneText, "",
                      [FellBack(text, gtts, disk, <<>>) EXCEPT !.resolved = FALSE]))
  /\ prev' = [prev EXCEPT ![t] = Summary(done[t])]
  /\ UNCHANGED <<fixed, cache, appGlobals, init, attempted>>

(* ----------------------- clone_voice_from_audio ----------------------- *)
\* "Please provide text to synthesize." is 34 characters long
CloneGuidanceLen == 34
CloneGuidance == Str(Rep("a", CloneGuidanceLen))

\* the reference audio a caller passes: None or "", the path of no file, the
\* path of a file
Refs == {"None", "missing", "exists"}

\* clone_voice_from_audio(text, reference_audio_path), lines 244-251
Call_clone_voice_from_audio(t, text, ref) ==
  /\ CanCall(t)
  /\ IF IsBlank(text)
       THEN /\ \E gtts \in GttsAnswers, disk \in DiskAnswers :
                 Complete(t, Unresolved("clone_voice_from_audio", text, NoneText, ref,
                                [FellBack(CloneGuidance, gtts, disk, <<>>)
                                   EXCEPT !.resolved = FALSE]))
            /\ prev' = [prev EXCEPT ![t] = Summary(done[t])]
            /\ UNCHANGED <<init, attempted>>
       ELSE \* with no reference file: `return synthesize_tts(text)`, line 249
            /\ op' = [op EXCEPT ![t] =
                 [NoOp EXCEPT !.name = "clone_voice_from_audio", !.text = text,
                    !.ref = ref,
                    !.voice = IF ref = "exists" THEN NoneText ELSE DefaultLabel,
                    !.nested = IF ref = "exists" THEN "" ELSE "synthesize_tts"]]
            /\ pc' = [pc EXCEPT ![t] = "L15"]
            /\ init' = [init EXCEPT ![t] = NoBackend]
            /\ attempted' = [attempted EXCEPT ![t] = <<>>]
            /\ done' = [done EXCEPT ![t] = NoDone]
            /\ prev' = [prev EXCEPT ![t] = Summary(done[t])]
            /\ UNCHANGED calls
  /\ UNCHANGED <<fixed, cache, appGlobals>>

\* clone_voice_from_audio after initialize_tts() returned, lines 253-295.
\* When the backend cannot clone or its generation raises, the call goes on
\* as synthesize_tts(text) (lines 288, 291, 295), which calls
\* initialize_tts() again; the output file made at line 262 or 280 stays.
clone_voice_body(t) ==
  /\ pc[t] = "return"
  /\ op[t].name = "clone_voice_from_audio"
  /\ op[t].nested = ""
  /\ IF init[t].tts = None
       THEN /\ \E gtts \in GttsAnswers, disk \in DiskAnswers :
                 Complete(t, Completed(t, FellBack(op[t].text, gtts, disk, <<>>)))
            /\ UNCHANGED <<init, attempted>>
       ELSE \E ca \in CloneAnswers(init[t].tts) :
              IF ca = "ok"
                THEN /\ Complete(t, [Completed(t,
                            [NoOutcome EXCEPT !.resolved = TRUE,
                               !.art = OutArtifact(op[t].text),
                               !.gen = init[t].tts.kind, !.created = <<"out">>])
                          EXCEPT !.canswer = ca])
                     /\ UNCHANGED <<init, attempted>>
                ELSE /\ op' = [op EXCEPT ![t] =
                          [@ EXCEPT !.nested = "synthesize_tts", !.voice = DefaultLabel,
                             !.canswer = ca,
                             !.created = IF ca = "raise" THEN <<"out">> ELSE <<>>]]
                     /\ pc' = [pc EXCEPT ![t] = "L15"]
                     /\ init' = [init EXCEPT ![t] = NoBackend]
                     /\ UNCHANGED <<attempted, done, calls>>
  /\ UNCHANGED <<fixed, cache, appGlobals, prev>>

(* ------------------ app.py: the Gradio synthesize button -------------- *)
\* the parameters of `def synthesize_tts(text, voice_selection=...)`
\* (chatterbox_demo.py:154)
synthesize_tts_parameters == {"text", "voice_selection"}
\* the keyword arguments of the call at app.py:302-311
status_keywords == {"exaggeration", "temperature", "cfg_weight", "min_p", "top_p",
                    "repetition_penalty", "seed_num"}
\* a call binds when the function has a parameter for every keyword;
\* otherwise Python raises TypeError before the body runs
binds(parameters, keywords) == keywords \subseteq parameters

\* app.py:296-297: text[:5000] + "..."
truncate(text) ==
  IF Len(text.s) > 5000 THEN Str(SubSeq(text.s, 1, 5000) \o <<".", ".", ".">>) ELSE text

\* synthesize_with_status(text, voice, exag, temp, cfg, min_p_val, top_p_val,
\* rep_pen, seed), app.py:290-321
Call_synthesize_with_status(t, text, voice) ==
  /\ CanCall(t)
  /\ IF IsBlank(text)
       THEN /\ Complete(t, Unresolved("synthesize_with_status", text, voice, "",
                             [NoOutcome EXCEPT !.error = "blank"]))
            /\ prev' = [prev EXCEPT ![t] = Summary(done[t])]
            /\ UNCHANGED <<init, attempted>>
       ELSE IF ~binds(synthesize_tts_parameters, status_keywords)
         THEN \* the TypeError is caught at line 319: (None, "Error: ...")
              /\ Complete(t, Unresolved("synthesize_with_status", text, voice, "",
                               [NoOutcome EXCEPT !.error = "TypeError"]))
              /\ prev' = [prev EXCEPT ![t] = Summary(done[t])]
              /\ UNCHANGED <<init, attempted>>
         ELSE /\ op' = [op EXCEPT ![t] =
                   [NoOp EXCEPT !.name = "synthesize_with_status",
                      !.text = truncate(text), !.voice = voice,
                      !.nested = "synthesize_tts"]]
              /\ pc' = [pc EXCEPT ![t] = "L15"]
              /\ init' = [init EXCEPT ![t] = NoBackend]
              /\ attempted' = [attempted EXCEPT ![t] = <<>>]
              /\ done' = [done EXCEPT ![t] = NoDone]
              /\ prev' = [prev EXCEPT ![t] = Summary(done[t])]
              /\ UNCHANGED calls
  /\ UNCHANGED <<fixed, cache, appGlobals>>

(* --------------------------- specifications --------------------------- *)
\* calls each thread makes when several threads call at once
MaxConcCalls == 1
\* the texts callers pass to synthesize_tts: None, "", " ", " a " and an
\* 11-character text
Texts == {NoneText, Str(<<>>), Str(<<" ">>), Str(<<" ", "a", " ">>), Str(Rep("a", 11))}
\* the texts handed to the fallback codec: every length up to MaxTextLen
CodecTexts == {Str(Rep("a", n)) : n \in 0..MaxTextLen} \cup {Str(<<" ">>)}
Voices == {DefaultLabel}

\* one caller at a time
Init == InitCommon /\ env \in Envs /\ live = {1} /\ texts = Texts /\ budget = MaxCalls
Next ==
  \/ \E t \in Threads : Call_initialize_tts(t)
  \/ \E t \in Threads : Call_get_voice_options(t)
  \/ \E t \in Threads : Call_safe_refresh_voices(t)
  \/ \E t \in Threads : \E text \in texts, voice \in Voices :
       Call_synthesize_tts(t, text, voice)
  \/ \E t \in Threads : CheckCache(t)
  \/ \E t \in Threads : Method1(t)
  \/ \E t \in Threads : Method2(t)
  \/ \E t \in Threads : Method3(t)
  \/ \E t \in Threads : TryCoqui(t)
  \/ \E t \in Threads : TryGtts(t)
  \/ \E t \in Threads : TryPyttsx3(t)
  \/ \E t \in Threads : CoquiVoicesStep(t)
  \/ \E t \in Threads : GttsVoicesStep(t)
  \/ \E t \in Threads : Pyttsx3VoicesStep(t)
  \/ \E t \in Threads : ListVoices(t)
  \/ \E t \in Threads : ReturnGlobals(t)
  \/ \E t \in Threads : Return(t)
Spec == Init /\ [][Next]_vars

\* callers on several threads (the Gradio thread and the HTTP handlers)
InitConc ==
  /\ InitCommon
  /\ env \in Envs
  /\ live = Threads
  /\ texts = Texts
  /\ budget = MaxConcCalls
NextConc ==
  \/ \E t \in Threads : Call_initialize_tts(t)
  \/ \E t \in Threads : CheckCache(t)
  \/ \E t \in Threads : Method1(t)
  \/ \E t \in Threads : Method2(t)
  \/ \E t \in Threads : Method3(t)
  \/ \E t \in Threads : TryCoqui(t)
  \/ \E t \in Threads : TryGtts(t)
  \/ \E t \in Threads : TryPyttsx3(t)
  \/ \E t \in Threads : CoquiVoicesStep(t)
  \/ \E t \in Threads : GttsVoicesStep(t)
  \/ \E t \in Threads : Pyttsx3VoicesStep(t)
  \/ \E t \in Threads : ListVoices(t)
  \/ \E t \in Threads : ReturnGlobals(t)
  \/ \E t \in Threads : Return(t)
SpecConc == InitConc /\ [][NextConc]_vars

\* the fallback codec on its own, with the gtts package installed or not
InitCodec ==
  /\ InitCommon
  /\ env \in {e \in Envs : \A c \in CandidateSet \ {"gTTS"} :
                              e[c] \in {"ImportError", "Exception"}}
  /\ live = {1}
  /\ texts = CodecTexts
  /\ budget = MaxCalls
NextCodec == \E text \in texts : Call_create_fallback_audio(1, text)
SpecCodec == InitCodec /\ [][NextCodec]_vars

\* synthesis and cloning: each candidate either constructs or fails the way
\* its own handler catches, and callers pick voices by label
SynthEnvs == {e \in Envs : \A c \in CandidateSet : e[c] \in {"ok", "ImportError", "Exception"}}
SynthTexts == {Str(<<" ">>), Str(Rep("a", 11))}
Labels == {DefaultLabel, NoneText, Str(<<>>),
           Str(Ben), Str(GoogleTTS \o <<"S", "p", "a", "n", "i", "s", "h", ")">>), Str(<<"Z", "e", "d">>)}
InitSynth ==
  /\ InitCommon
  /\ env \in SynthEnvs
  /\ live = {1}
  /\ texts = SynthTexts
  /\ budget = MaxCalls
NextSynth ==
  \/ \E t \in Threads : \E text \in texts, voice \in Labels :
       Call_synthesize_tts(t, text, voice)
  \/ \E t \in Threads : \E text \in texts, ref \in Refs :
       Call_clone_voice_from_audio(t, text, ref)
  \/ \E t \in Threads : \E text \in texts, voice \in Labels :
       Call_synthesize_with_status(t, text, voice)
  \/ \E t \in Threads : CheckCache(t)
  \/ \E t \in Threads : Method1(t)
  \/ \E t \in Threads : Method2(t)
  \/ \E t \in Threads : Method3(t)
  \/ \E t \in Threads : TryCoqui(t)
  \/ \E t \in Threads : TryGtts(t)
  \/ \E t \in Threads : TryPyttsx3(t)
  \/ \E t \in Threads : CoquiVoicesStep(t)
  \/ \E t \in Threads : GttsVoicesStep(t)
  \/ \E t \in Threads : Pyttsx3VoicesStep(t)
  \/ \E t \in Threads : ListVoices(t)
  \/ \E t \in Threads : ReturnGlobals(t)
  \/ \E t \in Threads : Return(t)
  \/ \E t \in Threads : clone_voice_body(t)
SpecSynth == InitSynth /\ [][NextSynth]_vars

\* nothing calls into chatterbox_demo
IdleChatterbox ==
  /\ tts_system = None
  /\ available_voices = <<>>
  /\ app_tts_system = Unbound(None)
  /\ app_available_voices = Unbound(<<>>)
  /\ nextId = 1
  /\ catalogs = {}
  /\ pc = [t \in Threads |-> "idle"]
  /\ op = [t \in Threads |-> NoOp]
  /\ init = [t \in Threads |-> NoBackend]
  /\ attempted = [t \in Threads |-> <<>>]
  /\ done = [t \in Threads |-> NoDone]
  /\ prev = [t \in Threads |-> NoPrev]
  /\ calls = [t \in Threads |-> 0]
  /\ env = [c \in CandidateSet |-> IF c = "Coqui" THEN "Exception" ELSE "ImportError"]
  /\ live = {}
  /\ texts = {}
  /\ budget = 0

\* voice resolution on its own: the catalogs a backend may list (one to
\* MaxCatalogLen voices) and the labels a caller may select
MaxCatalogLen == 2
VoicePool == {DictVoice(Str(Ava), <<"e", "n">>, <<"f", "e", "m", "a", "l", "e">>),
              DictVoice(Str(Ben), <<>>, <<>>),
              DictVoice(NoneText, <<>>, <<>>),
              DictVoice(Str(<<>>), <<>>, <<>>),
              StrVoice(Ava \o <<" ", "J", "r">>),
              StrVoice(<<"D", "e", "f", "a", "u", "l", "t">>)}
Catalogs == UNION {[1..n -> VoicePool] : n \in 1..MaxCatalogLen}
ResolveLabels == {DefaultLabel, NoneText, Str(<<>>),
                  Str(Ava \o <<" ", "(", "e", "n", ")", " ", "-", " ", "f", "e", "m", "a", "l", "e">>), Str(Ava \o <<" ", "J", "r", " ", "(", "e", "n", ")">>), Str(Ben),
                  Str(<<"V", "o", "i", "c", "e", " ", "2">>), Str(<<"Z", "e", "d">>)}
InitResolve ==
  /\ IdleChatterbox
  /\ IdleWhisper
  /\ IdleDownload
  /\ IdleSeeding
  /\ inputs \in [name : {"select_voice"}, voices : Catalogs,
                  voice_selection : ResolveLabels]
               \cup {[name |-> "get_voice_options", voices |-> c, entry |-> i] :
                       c \in Catalogs, i \in 1..MaxCatalogLen}
  /\ output = NoOutput
\* lines 170-184 applied to the inputs
Resolve ==
  /\ inputs.name = "select_voice"
  /\ ~output.returned
  /\ LET sel == select_voice(inputs.voices, inputs.voice_selection)
     IN  output' = [returned |-> TRUE, raised |-> sel.raised, voice |-> sel.voice]
  /\ UNCHANGED <<inputs, chatterbox, whisper, download, seeding>>
\* the dropdown: get_voice_options() builds the labels, the caller picks the
\* label of an entry and synthesize_tts resolves it (lines 170-184)
SelectOption ==
  /\ inputs.name = "get_voice_options"
  /\ inputs.entry <= Len(inputs.voices)
  /\ ~output.returned
  /\ LET options == get_voice_options(inputs.voices)
         sel == select_voice(inputs.voices, options[inputs.entry])
     IN  output' = [returned |-> TRUE, raised |-> sel.raised, voice |-> sel.voice,
                    label |-> options[inputs.entry]]
  /\ UNCHANGED <<inputs, chatterbox, whisper, download, seeding>>
NextResolve == Resolve \/ SelectOption
SpecResolve == InitResolve /\ [][NextResolve]_vars

(* ----------------------------- conversion ----------------------------- *)
\* chatterbox_demo.convert_voice(input_audio, target_audio): app.py imports
\* it, chatterbox_demo.py does not define it.  It gives the path of a
\* converted file, or None when conversion is unavailable, or raises.
ConvertAnswers == {"path", "None", "raise"}

\* what a Gradio wrapper returns: (audio path or None, status text)
Status(artifact, message, generated) ==
  [artifact |-> artifact, message |-> message, generated |-> generated]

\* app.py:62-74; exists is os.path.exists(audio_path)
safe_convert_no_input_check(input_audio, target_audio, convert, exists) ==
  IF convert = "raise" THEN Status("None", "Error: exception", TRUE)
  ELSE IF convert = "path" /\ exists
    THEN Status("converted", "Voice conversion completed successfully!", TRUE)
  ELSE Status("None", "Voice conversion failed or not available", TRUE)
safe_convert_voice(input_audio, target_audio, convert, exists) ==
  IF input_audio \in {"None", ""}
    THEN Status("None", "Error: Please provide input audio to convert", FALSE)
  ELSE IF convert = "raise" THEN Status("None", "Error: exception", TRUE)
  ELSE IF convert = "path" /\ exists
    THEN Status("converted", "Voice conversion completed successfully!", TRUE)
  ELSE Status("None", "Voice conversion failed or not available", TRUE)

\* what a job handler returns: an error dict, or a dict with the result; files
\* are the temporary files it made and did not unlink, fetched tells whether
\* it called download_audio_from_url or decode_base64_audio
HandlerError(message, files, generated, fetched) ==
  [error |-> message, audio |-> FALSE, generated |-> generated, files |-> files,
   fetched |-> fetched]
HandlerAudio == [error |-> "", audio |-> TRUE, generated |-> TRUE, files |-> <<>>,
                 fetched |-> TRUE]

JobKeys == {"input_audio_url", "input_audio_base64", "target_voice_url",
            "target_voice_base64"}
\* how fetching or decoding the input and the target, the model's generate()
\* and writing and encoding the result end
HandlerAnswers == [input : {"ok", "raise"}, target : {"ok", "raise"},
                   generate : {"ok", "raise"}, write : {"ok", "raise"}]

\* src/handler.py:168-213
voice_conversion(vc_model, job_input, a) ==
  IF vc_model = "None"
    THEN HandlerError("ChatterboxVC model not available", <<>>, FALSE, FALSE)
  ELSE IF "input_audio_url" \notin job_input /\ "input_audio_base64" \notin job_input
    THEN HandlerError("No input audio provided", <<>>, FALSE, FALSE)
  ELSE IF a.input = "raise"
    THEN HandlerError("Voice conversion failed", <<>>, FALSE, TRUE)
  ELSE
    LET hasTarget == "target_voice_url" \in job_input
                       \/ "target_voice_base64" \in job_input
        held == <<"input">> \o (IF hasTarget THEN <<"target">> ELSE <<>>)
    IN  IF hasTarget /\ a.target = "raise"
          THEN HandlerError("Voice conversion failed", <<"input">>, FALSE, TRUE)
        ELSE IF a.generate = "raise"
          THEN HandlerError("Voice conversion failed", held, TRUE, TRUE)
        ELSE IF a.write = "raise"
          THEN HandlerError("Voice conversion failed", held \o <<"output">>, TRUE, TRUE)
        ELSE HandlerAudio

ConvertInputs ==
  [name : {"safe_convert_voice"}, input_audio : {"None", "", "in.wav"},
   target_audio : {"None", "target.wav"}, convert : ConvertAnswers, exists : BOOLEAN]
ConversionJobs ==
  [name : {"voice_conversion"}, vc_model : {"None", "ChatterboxVC"},
   job_input : SUBSET JobKeys, answers : HandlerAnswers]
InitConvert ==
  /\ IdleChatterbox
  /\ IdleWhisper
  /\ IdleDownload
  /\ IdleSeeding
  /\ inputs \in ConvertInputs \cup ConversionJobs
  /\ output = NoOutput
Apply_safe_convert_voice ==
  /\ inputs.name = "safe_convert_voice"
  /\ ~output.returned
  /\ output' = [returned |-> TRUE,
                value |-> safe_convert_voice(inputs.input_audio, inputs.target_audio,
                                             inputs.convert, inputs.exists)]
  /\ UNCHANGED <<inputs, chatterbox, whisper, download, seeding>>
Apply_voice_conversion ==
  /\ inputs.name = "voice_conversion"
  /\ ~output.returned
  /\ output' = [returned |-> TRUE,
                value |-> voice_conversion(inputs.vc_model, inputs.job_input,
                                           inputs.answers)]
  /\ UNCHANGED <<inputs, chatterbox, whisper, download, seeding>>
NextConvert == Apply_safe_convert_voice \/ Apply_voice_conversion
SpecConvert == InitConvert /\ [][NextConvert]_vars

(* ---------------------------- whisper_demo ---------------------------- *)
\* the installation: torch.cuda.is_available() and how each WhisperModel(...)
\* construction ends
WhisperEnvs == [device : {"cuda", "cpu"}, base_cuda : {"ok", "raise"},
                base_cpu : {"ok", "raise"}, tiny_cpu : {"ok", "raise"}]

\* lines 15-20: WhisperModel("base", device="cuda", compute_type="float16")
LoadBaseCuda ==
  /\ whisper_pc = "L13"
  /\ whisper_env.device = "cuda"
  /\ IF whisper_env.base_cuda = "ok"
       THEN model' = "base/cuda" /\ whisper_pc' = "loaded"
       ELSE model' = model /\ whisper_pc' = "L22"
  /\ whisper_tried' = Append(whisper_tried, "base/cuda")
  /\ UNCHANGED <<whisper_env, transcribed, inputs, output, chatterbox, download,
                  seeding>>
\* lines 22 and 25: WhisperModel("base", device="cpu", compute_type="int8");
\* a failure reaches the handler at line 28 from either place
LoadBaseCpu ==
  /\ \/ whisper_pc = "L13" /\ whisper_env.device = "cpu"
     \/ whisper_pc = "L22"
  /\ IF whisper_env.base_cpu = "ok"
       THEN model' = "base/cpu" /\ whisper_pc' = "loaded"
       ELSE model' = model /\ whisper_pc' = "L32"
  /\ whisper_tried' = Append(whisper_tried, "base/cpu")
  /\ UNCHANGED <<whisper_env, transcribed, inputs, output, chatterbox, download,
                  seeding>>
\* lines 31-36: WhisperModel("tiny", device="cpu", compute_type="int8")
LoadTinyCpu_uncaught ==
  /\ whisper_pc = "L32"
  /\ model' = IF whisper_env.tiny_cpu = "ok" THEN "tiny/cpu" ELSE model
  /\ whisper_pc' = IF whisper_env.tiny_cpu = "ok" THEN "loaded" ELSE "raised"
  /\ whisper_tried' = Append(whisper_tried, "tiny/cpu")
  /\ UNCHANGED <<whisper_env, transcribed, inputs, output, chatterbox, download,
                  seeding>>
LoadTinyCpu ==
  /\ whisper_pc = "L32"
  /\ model' = IF whisper_env.tiny_cpu = "ok" THEN "tiny/cpu" ELSE "None"
  /\ whisper_pc' = "loaded"
  /\ whisper_tried' = Append(whisper_tried, "tiny/cpu")
  /\ UNCHANGED <<whisper_env, transcribed, inputs, output, chatterbox, download,
                  seeding>>

\* the audio paths callers pass: None, the path of no file, paths of files
AudioPaths == {"None", "missing.wav", "speech.wav", "noise.wav"}
\* how model.transcribe() and reading its segments end: a text, no text, or
\* an exception from the call or from the segment generator
TranscribeAnswers == {"text", "empty", "raise in transcribe", "raise in segments"}

\* whisper_demo.py:38-52
transcribe_uncaught(audio_path, answer) ==
  [name |-> "transcribe_audio", audio |-> audio_path,
   result |-> IF answer = "text" THEN "hello" ELSE "",
   touched |-> TRUE, raised |-> answer \notin {"text", "empty"}]
transcribe_audio(audio_path, answer) ==
  IF model = "None"
    THEN [name |-> "transcribe_audio", audio |-> audio_path,
          result |-> "Error: Whisper model failed to load",
          touched |-> FALSE, raised |-> FALSE]
    ELSE [name |-> "transcribe_audio", audio |-> audio_path,
          result |-> CASE answer = "text" -> "hello"
                       [] answer = "empty" -> ""
                       [] OTHER -> "Error transcribing audio: exception",
          touched |-> TRUE, raised |-> FALSE]

\* app.py:19-30
safe_transcribe_audio(audio_path, answer) ==
  IF audio_path = "None"
    THEN [name |-> "safe_transcribe_audio", audio |-> audio_path,
          result |-> "Error: No audio file provided", touched |-> FALSE,
          raised |-> FALSE]
  ELSE IF audio_path = "missing.wav"
    THEN [name |-> "safe_transcribe_audio", audio |-> audio_path,
          result |-> "Error: Audio file not found", touched |-> FALSE,
          raised |-> FALSE]
  ELSE LET r == transcribe_audio(audio_path, answer)
       IN  IF r.raised
             THEN [r EXCEPT !.name = "safe_transcribe_audio", !.raised = FALSE,
                            !.result = "Error: exception"]
           ELSE IF r.result = ""
             THEN [r EXCEPT !.name = "safe_transcribe_audio",
                            !.result = "Error: Transcription failed"]
           ELSE [r EXCEPT !.name = "safe_transcribe_audio"]

Call_transcribe_audio ==
  /\ whisper_pc = "loaded"
  /\ \E audio_path \in AudioPaths, answer \in TranscribeAnswers :
       transcribed' = transcribe_audio(audio_path, answer)
  /\ UNCHANGED <<whisper_env, model, whisper_pc, whisper_tried, inputs, output, chatterbox,
                  download, seeding>>
Call_safe_transcribe_audio ==
  /\ whisper_pc = "loaded"
  /\ \E audio_path \in AudioPaths, answer \in TranscribeAnswers :
       transcribed' = safe_transcribe_audio(audio_path, answer)
  /\ UNCHANGED <<whisper_env, model, whisper_pc, whisper_tried, inputs, output, chatterbox,
                  download, seeding>>

InitWhisper ==
  /\ IdleChatterbox
  /\ IdleFunction
  /\ IdleDownload
  /\ IdleSeeding
  /\ whisper_env \in WhisperEnvs
  /\ model = "unbound"
  /\ whisper_pc = "L13"
  /\ transcribed = NoTranscription
  /\ whisper_tried = <<>>
NextWhisper ==
  \/ LoadBaseCuda
  \/ LoadBaseCpu
  \/ LoadTinyCpu
  \/ Call_transcribe_audio
  \/ Call_safe_transcribe_audio
SpecWhisper == InitWhisper /\ [][NextWhisper]_vars

(* --------------------------- download_models -------------------------- *)
\* str(e) of the exceptions from_pretrained() may raise; <<>> is success
NoError == <<>>
TooManyRequests == <<"4", "2", "9", " ", "T", "o", "o", " ", "M", "a", "n", "y", " ", "R", "e", "q", "u", "e", "s", "t", "s">>
RateLimitExceeded == <<"R", "a", "t", "e", " ", "L", "i", "m", "i", "t", " ", "e", "x", "c", "e", "e", "d", "e", "d">>
RateLimitReached == <<"r", "a", "t", "e", " ", "l", "i", "m", "i", "t", " ", "r", "e", "a", "c", "h", "e", "d">>
ConnectionReset == <<"C", "o", "n", "n", "e", "c", "t", "i", "o", "n", " ", "r", "e", "s", "e", "t">>
ServerError == <<"H", "T", "T", "P", " ", "5", "0", "0">>
ErrorTexts == {TooManyRequests, RateLimitExceeded, RateLimitReached, ConnectionReset,
               ServerError}

\* line 42: "429" in str(e) or "rate limit" in str(e).lower()
every_error_rate_limited(e) == TRUE
rate_limited(e) ==
  contains(e, <<"4", "2", "9">>) \/ contains(lower(e), <<"r", "a", "t", "e", " ", "l", "i", "m", "i", "t">>)

\* line 43: wait_time = (attempt + 1) * 30
base_delay == 30
wait_time_flat(n) == base_delay
wait_time(n) == (n + 1) * base_delay

DownloadEnvs == [import : {"ok", "ImportError"},
                 errors : [1..max_retries -> ErrorTexts \cup {NoError}]]

\* line 45: `if attempt < max_retries - 1`, the last attempt is not retried
always_retry(n) == TRUE
may_retry(n) == n < max_retries - 1

\* lines 18-27: the import of chatterbox.tts; an ImportError reaches line 53
StartDownload ==
  /\ dl_pc = "idle"
  /\ IF dl_env.import = "ok"
       THEN dl_pc' = "L28" /\ dl_result' = dl_result
       ELSE dl_pc' = "done" /\ dl_result' = "False"
  /\ attempt' = 0
  /\ UNCHANGED <<dl_env, slept, constructed, inputs, output, whisper, chatterbox,
                  seeding>>

\* lines 28-51: one turn of `for attempt in range(max_retries)`.  `raise e`
\* (line 49) is caught at line 53, which returns False.
Construct ==
  /\ dl_pc = "L28"
  /\ IF attempt >= max_retries
       THEN /\ dl_pc' = "done"
            /\ dl_result' = "False"
            /\ UNCHANGED <<attempt, slept, constructed>>
       ELSE LET e == dl_env.errors[attempt + 1]
            IN  /\ constructed' = constructed + 1
                /\ IF e = NoError
                     THEN /\ dl_pc' = "done"
                          /\ dl_result' = "True"
                          /\ UNCHANGED <<attempt, slept>>
                     ELSE IF rate_limited(e) /\ may_retry(attempt)
                       THEN /\ slept' = Append(slept, wait_time(attempt))
                            /\ attempt' = attempt + 1
                            /\ UNCHANGED <<dl_pc, dl_result>>
                       ELSE /\ dl_pc' = "done"
                            /\ dl_result' = "False"
                            /\ UNCHANGED <<attempt, slept>>
  /\ UNCHANGED <<dl_env, inputs, output, whisper, chatterbox,
                  seeding>>

InitDownload ==
  /\ IdleChatterbox
  /\ IdleSeeding
  /\ IdleFunction
  /\ IdleWhisper
  /\ dl_env \in DownloadEnvs
  /\ attempt = 0
  /\ slept = <<>>
  /\ constructed = 0
  /\ dl_pc = "idle"
  /\ dl_result = "none"
NextDownload == StartDownload \/ Construct
SpecDownload == InitDownload /\ [][NextDownload]_vars
\* the loop is one sequential function: nothing stops it between turns
SpecDownloadLive == InitDownload /\ [][NextDownload]_vars /\ WF_vars(NextDownload)

(* ----------------------------- HTTP routes ---------------------------- *)
\* How a route's try block ends: with a response, or with an exception.
\* backend tells whether synthesize_tts or transcribe_audio was called,
\* tmp_path whether the route's local of that name is bound.
Responds(status, backend) ==
  [raises |-> "", status |-> status, backend |-> backend, tmp_path |-> "bound"]
Raises(exc, status, backend, tmp_path) ==
  [raises |-> exc, status |-> status, backend |-> backend, tmp_path |-> tmp_path]

\* what the client gets: the status, and which exception produced it
Response(status, exc, backend) == [status |-> status, exc |-> exc, backend |-> backend]

\* what synthesize_tts(text) hands the route: the path of a file, the path of
\* a file that is gone, or None
SynthResults == {"path", "gone", "None"}

\* POST /synthesize, the try block: app.py:144-158, app-cloudrun.py:54-68.
\* os.path.exists(None) raises TypeError.
synthesize_try(text, audio_path) ==
  IF strip(text.s) = <<>> THEN Raises("HTTPException", 400, FALSE, "bound")
  ELSE IF audio_path = "None" THEN Raises("TypeError", 0, TRUE, "bound")
  ELSE IF audio_path = "gone" THEN Raises("HTTPException", 500, TRUE, "bound")
  ELSE Responds(200, TRUE)
\* the route with its handler: app.py:160-162, app-cloudrun.py:70-72.
\* HTTPException is an Exception, so `except Exception` catches the route's
\* own HTTPException too and raises HTTPException(500).
synthesize_route(text, audio_path) ==
  LET r == synthesize_try(text, audio_path)
  IN  IF r.raises # "" THEN Response(500, "HTTPException", r.backend)
      ELSE Response(r.status, "", r.backend)

\* the content types of an upload; <<>> is a missing or empty one
ContentTypes == {<<>>, <<"t", "e", "x", "t", "/", "p", "l", "a", "i", "n">>, <<"i", "m", "a", "g", "e", "/", "p", "n", "g">>, <<"a", "u", "d", "i", "o", "/", "w", "a", "v">>, <<"a", "u", "d", "i", "o", "/", "m", "p", "e", "g">>, <<"a", "u", "d", "i", "o">>}
\* the module whose route is called: app.py binds tmp_path only at line 126,
\* app-cloudrun.py sets it to None before the try (line 27)
Apps == {"app", "app-cloudrun"}

\* POST /transcribe, the try block: app.py:119-132, app-cloudrun.py:29-42
transcribe_try(app, content_type, disk) ==
  LET early == IF app = "app" THEN "unbound" ELSE "None"
  IN  IF content_type = <<>> \/ ~startswith(content_type, <<"a", "u", "d", "i", "o", "/">>)
        THEN Raises("HTTPException", 400, FALSE, early)
      ELSE IF disk # "ok" THEN Raises("OSError", 0, FALSE, early)
      ELSE Responds(200, TRUE)
\* the route with its handler: app.py:134-138, app-cloudrun.py:44-48.  In
\* app.py the handler reads tmp_path, which raises UnboundLocalError when the
\* try block failed before line 126; the server answers an unhandled exception
\* with status 500.
transcribe_route(app, content_type, disk) ==
  LET r == transcribe_try(app, content_type, disk)
  IN  IF r.raises = "" THEN Response(r.status, "", r.backend)
      ELSE IF r.tmp_path = "unbound" THEN Response(500, "UnboundLocalError", r.backend)
      ELSE Response(500, "HTTPException", r.backend)

HttpTexts == {Str(<<>>), Str(<<" ">>), Str(<<" ", " ">>), Str(<<"a">>),
              Str(<<" ", "a", " ">>), Str(Rep("a", 11))}
SynthesizeRequests ==
  [name : {"POST /synthesize"}, app : Apps, text : HttpTexts, audio_path : SynthResults]
TranscribeRequests ==
  [name : {"POST /transcribe"}, app : Apps, content_type : ContentTypes,
   disk : DiskAnswers]
InitHttp ==
  /\ IdleChatterbox
  /\ IdleWhisper
  /\ IdleDownload
  /\ IdleSeeding
  /\ inputs \in SynthesizeRequests \cup TranscribeRequests
  /\ output = NoOutput
Post_synthesize ==
  /\ inputs.name = "POST /synthesize"
  /\ ~output.returned
  /\ output' = [returned |-> TRUE,
                value |-> synthesize_route(inputs.text, inputs.audio_path)]
  /\ UNCHANGED <<inputs, chatterbox, whisper, download, seeding>>
Post_transcribe ==
  /\ inputs.name = "POST /transcribe"
  /\ ~output.returned
  /\ output' = [returned |-> TRUE,
                value |-> transcribe_route(inputs.app, inputs.content_type, inputs.disk)]
  /\ UNCHANGED <<inputs, chatterbox, whisper, download, seeding>>
NextHttp == Post_synthesize \/ Post_transcribe
SpecHttp == InitHttp /\ [][NextHttp]_vars

(* ------------------------- serverless handler ------------------------- *)
\* A job's "input" is absent, a dict, or JSON of another type (a string, a
\* list).  Of a dict the model keeps the task, the keys that name audio, and
\* the text (hasText: the key is present).
Tasks == {"absent", "tts", "text_to_speech", "vc", "voice_conversion", "stt",
          "speech_to_text", "sing"}
TtsKeys == {"reference_audio_url", "reference_audio_base64"}
SttKeys == {"audio_url", "audio_base64"}
HandlerTexts == {NoneText, Str(<<>>), Str(<<" ">>), Str(<<" ", "\t">>),
                 Str(<<"h", "i">>)}
\* how large the reference audio behind reference_audio_url or
\* reference_audio_base64 is; no line of the handler reads the size
RefSizes == {"1 MB", "51 MB"}
EmptyDict == [task |-> "absent", keys |-> {}, hasText |-> FALSE, text |-> Str(<<>>),
              ref_size |-> "1 MB"]

\* the module globals after initialize_models(), src/handler.py:18-55
Models == [tts_model : {"None", "ChatterboxTTS"}, vc_model : {"None", "ChatterboxVC"},
           whisper_model : {"None", "WhisperModel"}]

\* Python's truth value of a text: None and "" are false
truthy(text) == ~text.none /\ text.s # <<>>

\* src/handler.py:91-166
text_to_speech(tts_model, job_input, a) ==
  IF tts_model = "None"
    THEN HandlerError("ChatterboxTTS model not available", <<>>, FALSE, FALSE)
  ELSE
    LET text == IF job_input.hasText THEN job_input.text ELSE Str(<<>>)
        hasRef == job_input.keys \cap TtsKeys # {}
        held == IF hasRef THEN <<"reference">> ELSE <<>>
    IN  IF ~truthy(text)
          THEN HandlerError("No text provided", <<>>, FALSE, FALSE)
        ELSE IF hasRef /\ a.input = "raise"
          THEN HandlerError("TTS generation failed", <<>>, FALSE, TRUE)
        ELSE IF a.generate = "raise"
          THEN HandlerError("TTS generation failed", held, TRUE, hasRef)
        ELSE IF a.write = "raise"
          THEN HandlerError("TTS generation failed", held \o <<"output">>, TRUE, hasRef)
        ELSE [HandlerAudio EXCEPT !.fetched = hasRef]

\* src/handler.py:215-257; generate is whisper_model.transcribe() and the
\* reading of its segments
speech_to_text(whisper_model, job_input, a) ==
  IF whisper_model = "None"
    THEN HandlerError("Whisper model not available", <<>>, FALSE, FALSE)
  ELSE IF job_input.keys \cap SttKeys = {}
    THEN HandlerError("No audio provided", <<>>, FALSE, FALSE)
  ELSE IF a.input = "raise"
    THEN HandlerError("Speech transcription failed", <<>>, FALSE, TRUE)
  ELSE IF a.generate = "raise"
    THEN HandlerError("Speech transcription failed", <<"input">>, TRUE, TRUE)
  ELSE HandlerAudio

\* src/handler.py:259-278.  Lines 261-262 stand before the try: input of a
\* type without .get raises out of handler.
handler(job, models, a) ==
  IF job.input = "other"
    THEN [raised |-> TRUE, ran |-> "none", task_type |-> "none",
          value |-> HandlerError("", <<>>, FALSE, FALSE)]
  ELSE
    LET job_input == IF job.input = "absent" THEN EmptyDict ELSE job.dict
        task_type == IF job_input.task = "absent" THEN "tts" ELSE job_input.task
    IN  IF task_type \in {"tts", "text_to_speech"}
          THEN [raised |-> FALSE, ran |-> "text_to_speech", task_type |-> task_type,
                value |-> text_to_speech(models.tts_model, job_input, a)]
        ELSE IF task_type \in {"vc", "voice_conversion"}
          THEN [raised |-> FALSE, ran |-> "voice_conversion", task_type |-> task_type,
                value |-> voice_conversion(models.vc_model, job_input.keys, a)]
        ELSE IF task_type \in {"stt", "speech_to_text"}
          THEN [raised |-> FALSE, ran |-> "speech_to_text", task_type |-> task_type,
                value |-> speech_to_text(models.whisper_model, job_input, a)]
        ELSE [raised |-> FALSE, ran |-> "none", task_type |-> task_type,
              value |-> HandlerError("Unknown task type: " \o task_type, <<>>,
                                     FALSE, FALSE)]

\* the jobs: per task the keys that task reads
Dicts ==
  [task : {"absent", "tts", "text_to_speech"}, keys : SUBSET TtsKeys,
   hasText : BOOLEAN, text : HandlerTexts, ref_size : RefSizes]
  \cup [task : {"vc", "voice_conversion"}, keys : SUBSET JobKeys, hasText : {FALSE},
        text : {Str(<<>>)}, ref_size : {"1 MB"}]
  \cup [task : {"stt", "speech_to_text"}, keys : SUBSET SttKeys, hasText : {FALSE},
        text : {Str(<<>>)}, ref_size : {"1 MB"}]
  \cup [task : {"sing"}, keys : {{}}, hasText : {TRUE}, text : {Str(<<"h", "i">>)},
        ref_size : {"1 MB"}]
Jobs ==
  [input : {"dict"}, dict : Dicts] \cup [input : {"absent", "other"}, dict : {EmptyDict}]
HandlerInputs ==
  [name : {"handler"}, job : Jobs, models : Models,
   answers : {a \in HandlerAnswers : a.target = "ok" \/ a.input = "ok"}]

\* src/handler.py:23-55: three try blocks one after the other, each importing
\* and constructing one model and binding None when that raises
Loads == [tts : {"ok", "ImportError", "raise"}, vc : {"ok", "ImportError", "raise"},
          whisper : {"ok", "ImportError", "raise"}]
load(outcome, name) == IF outcome = "ok" THEN name ELSE "None"
initialize_models_one_try(e) ==
  [tts_model |-> load(e.tts, "ChatterboxTTS"),
   vc_model |-> IF e.tts = "ok" THEN load(e.vc, "ChatterboxVC") ELSE "None",
   whisper_model |-> IF e.tts = "ok" /\ e.vc = "ok"
                       THEN load(e.whisper, "WhisperModel") ELSE "None",
   attempted |-> IF e.tts # "ok" THEN <<"ChatterboxTTS">>
                 ELSE IF e.vc # "ok" THEN <<"ChatterboxTTS", "ChatterboxVC">>
                 ELSE <<"ChatterboxTTS", "ChatterboxVC", "WhisperModel">>,
   raised |-> FALSE]
initialize_models(e) ==
  [tts_model |-> load(e.tts, "ChatterboxTTS"),
   vc_model |-> load(e.vc, "ChatterboxVC"),
   whisper_model |-> load(e.whisper, "WhisperModel"),
   attempted |-> <<"ChatterboxTTS", "ChatterboxVC", "WhisperModel">>,
   raised |-> FALSE]
LoadInputs == [name : {"initialize_models"}, loads : Loads]

InitHandler ==
  /\ IdleChatterbox
  /\ IdleWhisper
  /\ IdleDownload
  /\ IdleSeeding
  /\ inputs \in HandlerInputs \cup LoadInputs
  /\ output = NoOutput
Apply_handler ==
  /\ inputs.name = "handler"
  /\ ~output.returned
  /\ output' = [returned |-> TRUE,
                value |-> handler(inputs.job, inputs.models, inputs.answers)]
  /\ UNCHANGED <<inputs, chatterbox, whisper, download, seeding>>
Apply_initialize_models ==
  /\ inputs.name = "initialize_models"
  /\ ~output.returned
  /\ output' = [returned |-> TRUE, value |-> initialize_models(inputs.loads)]
  /\ UNCHANGED <<inputs, chatterbox, whisper, download, seeding>>
NextHandler == Apply_handler \/ Apply_initialize_models
SpecHandler == InitHandler /\ [][NextHandler]_vars

(* ------------------- interactive resolution and the hub --------------- *)
\* Installations in which constructing the first chatterbox candidate, which
\* fetches its weights from the model hub, may fail with the hub's rate-limit
\* error ("HTTP 429"); that error is neither ImportError nor AttributeError.
InteractiveEnvs ==
  SynthEnvs \cup {[e EXCEPT !["Method1"] = "HTTP 429"] : e \in SynthEnvs}
InitInteractive ==
  /\ InitCommon
  /\ env \in InteractiveEnvs
  /\ live = {1}
  /\ texts = {}
  /\ budget = MaxCalls
NextInteractive ==
  \/ \E t \in Threads : Call_initialize_tts(t)
  \/ \E t \in Threads : CheckCache(t)
  \/ \E t \in Threads : Method1(t)
  \/ \E t \in Threads : Method2(t)
  \/ \E t \in Threads : Method3(t)
  \/ \E t \in Threads : TryCoqui(t)
  \/ \E t \in Threads : TryGtts(t)
  \/ \E t \in Threads : TryPyttsx3(t)
  \/ \E t \in Threads : CoquiVoicesStep(t)
  \/ \E t \in Threads : GttsVoicesStep(t)
  \/ \E t \in Threads : Pyttsx3VoicesStep(t)
  \/ \E t \in Threads : ListVoices(t)
  \/ \E t \in Threads : ReturnGlobals(t)
  \/ \E t \in Threads : Return(t)
SpecInteractive == InitInteractive /\ [][NextInteractive]_vars

(* ------------------- concurrent seeded requests ----------------------- *)
\* text_to_speech of src/handler.py run by several requests at once.  torch's
\* and numpy's generators are process-wide; the function takes no lock.
Seeds == {0, 7, 9}

\* lines 93-115: the model and text checks, the parameters, the reference
Submit(r) ==
  /\ req_pc[r] = "idle"
  /\ \E seed \in Seeds : req_seed' = [req_seed EXCEPT ![r] = seed]
  /\ req_pc' = [req_pc EXCEPT ![r] = "L118"]
  /\ UNCHANGED <<rng, reseeded, inputs, output, chatterbox, whisper, download>>
\* lines 118-123: `if seed != 0:` torch.manual_seed, torch.cuda.manual_seed,
\* torch.cuda.manual_seed_all, np.random.seed
SeedGenerators(r) ==
  /\ req_pc[r] = "L118"
  /\ IF req_seed[r] # 0
       THEN /\ rng' = req_seed[r]
            /\ reseeded' = [reseeded EXCEPT ![r] = TRUE]
       ELSE UNCHANGED <<rng, reseeded>>
  /\ req_pc' = [req_pc EXCEPT ![r] = "L126"]
  /\ UNCHANGED <<req_seed, inputs, output, chatterbox, whisper, download>>
\* line 126: tts_model.generate(...) is entered; it draws from the generators
BeginGenerate(r) ==
  /\ req_pc[r] = "L126"
  /\ req_pc' = [req_pc EXCEPT ![r] = "generating"]
  /\ UNCHANGED <<req_seed, rng, reseeded, inputs, output, chatterbox, whisper, download>>
\* lines 126-166: generate returns or raises, and the request ends
EndGenerate(r) ==
  /\ req_pc[r] = "generating"
  /\ req_pc' = [req_pc EXCEPT ![r] = "done"]
  /\ UNCHANGED <<req_seed, rng, reseeded, inputs, output, chatterbox, whisper, download>>

InitSeeding ==
  /\ IdleChatterbox
  /\ IdleFunction
  /\ IdleWhisper
  /\ IdleDownload
  /\ IdleSeeding
NextSeeding ==
  \/ \E r \in Requests : Submit(r)
  \/ \E r \in Requests : SeedGenerators(r)
  \/ \E r \in Requests : BeginGenerate(r)
  \/ \E r \in Requests : EndGenerate(r)
SpecSeeding == InitSeeding /\ [][NextSeeding]_vars

(* ------------------------ download_models.main ----------------------- *)
\* How a run of the script goes: what download_chatterbox_models() returns
\* (its loop is SpecDownload), whether faster_whisper imports and how
\* WhisperModel(size) ends for each size, and how the ChatterboxVC import and
\* from_pretrained end.
models_to_download == <<"base", "small", "medium">>
WhisperSizes == {models_to_download[i] : i \in 1..Len(models_to_download)}
MainEnvs ==
  [name : {"main"}, chatterbox : BOOLEAN, whisper_import : {"ok", "ImportError"},
   whisper : [WhisperSizes -> {"ok", "raise"}], vc : {"ok", "ImportError", "raise"}]

\* download_models.py:57-81: the sizes that were downloaded, and the return
\* value; a size's failure is logged and the loop continues to `return True`
whisper_downloaded(e) ==
  IF e.whisper_import = "ok" THEN {z \in WhisperSizes : e.whisper[z] = "ok"} ELSE {}
download_whisper_models(e) == e.whisper_import = "ok"
\* download_models.py:83-102
download_voice_conversion_models(e) == e.vc = "ok"

\* download_models.py:104-133
main(e) ==
  LET success_count == (IF e.chatterbox THEN 1 ELSE 0)
                         + (IF download_whisper_models(e) THEN 1 ELSE 0)
                         + (IF download_voice_conversion_models(e) THEN 1 ELSE 0)
  IN  [code |-> IF success_count > 0 THEN 0 ELSE 1,
       success_count |-> success_count,
       downloaded |-> (IF e.chatterbox THEN {"ChatterboxTTS"} ELSE {})
                        \cup whisper_downloaded(e)
                        \cup (IF e.vc = "ok" THEN {"ChatterboxVC"} ELSE {})]

InitMain ==
  /\ IdleChatterbox
  /\ IdleWhisper
  /\ IdleDownload
  /\ IdleSeeding
  /\ inputs \in MainEnvs
  /\ output = NoOutput
Apply_main ==
  /\ inputs.name = "main"
  /\ ~output.returned
  /\ output' = [returned |-> TRUE, value |-> main(inputs)]
  /\ UNCHANGED <<inputs, chatterbox, whisper, download, seeding>>
NextMain == Apply_main
SpecMain == InitMain /\ [][NextMain]_vars

(* ------------------------------ properties ---------------------------- *)
Range(f) == {f[i] : i \in DOMAIN f}
NothingInstalled == \A c \in CandidateSet : env[c] # "ok"

\* C1: initialize_tts() called twice in a row, with no reset in between,
\* returns the same backend and catalog both times and the second call
\* constructs nothing, whatever the first call's outcome was.
C1_Idempotent ==
  \A t \in Threads :
    (done[t].name = "initialize_tts" /\ prev[t].name = "initialize_tts")
      => /\ done[t].init = prev[t].init
         /\ done[t].attempted = <<>>

\* C2: calls of initialize_tts() that overlap never construct the same
\* candidate twice between them, and callers of the first wave all get the
\* same backend.
C2_SingleFlight ==
  /\ \A c \in CandidateSet :
       Cardinality({t \in Threads : pc[t] # "idle" /\ c \in Range(attempted[t])}) <= 1
  /\ \A t1, t2 \in Threads :
       (done[t1].name = "initialize_tts" /\ done[t2].name = "initialize_tts")
         => done[t1].init.tts = done[t2].init.tts

\* C3: initialize_tts() never returns a backend together with a catalog that
\* was not listed for that backend.
C3_NeverHalfBuilt ==
  \A t \in Threads :
    (done[t].name = "initialize_tts" /\ done[t].init.tts # None)
      => <<done[t].init.tts, done[t].init.voices>> \in catalogs

\* C4: the resolution safe_refresh_voices() triggers re-runs the probe chain
\* from the top candidate.
C4_ResetReprobes ==
  \A t \in Threads :
    done[t].name = "safe_refresh_voices"
      => /\ done[t].attempted # <<>>
         /\ Head(done[t].attempted) = "Method1"

\* C5: when at least one candidate can be constructed, initialize_tts()
\* returns a backend: no candidate's failure ends the chain.
C5_ChainContinues ==
  \A t \in Threads :
    (done[t].name = "initialize_tts" /\ ~NothingInstalled)
      => done[t].init.tts # None

\* C6: when no candidate can be constructed, initialize_tts() returns
\* (None, []) and synthesize_tts of a non-blank text returns what
\* create_fallback_audio(text) gives, with no backend generation.
C6_NoBackendFallback ==
  \A t \in Threads :
    NothingInstalled =>
      /\ done[t].name = "initialize_tts" => done[t].init = NoBackend
      /\ (done[t].name = "synthesize_tts" /\ ~IsBlank(done[t].text)) =>
           /\ done[t].init = NoBackend
           /\ done[t].gen = "none"
           /\ done[t].fb.called
           /\ done[t].fb.text = done[t].text
           /\ done[t].art.kind \in {"wav", "None"}
           /\ done[t].art.kind = "wav" => done[t].art.text = done[t].text
C6_Witness ==
  \E t \in Threads :
    /\ NothingInstalled
    /\ prev[t].name = "initialize_tts"
    /\ done[t].name = "synthesize_tts"
    /\ done[t].text = Str(Rep("a", 11))
    /\ done[t].art.kind = "wav"

\* C7: synthesize_tts of None, "" or whitespace returns the fallback artifact
\* of the guidance message, with no resolution and no backend generation.
C7_BlankText ==
  \A t \in Threads :
    (done[t].name = "synthesize_tts" /\ IsBlank(done[t].text)) =>
      /\ ~done[t].resolved
      /\ done[t].attempted = <<>>
      /\ done[t].gen = "none"
      /\ done[t].fb.called
      /\ done[t].fb.text = Guidance
      /\ done[t].art.kind \in {"mp3", "wav"} => done[t].art.text = Guidance
C7_Witness ==
  \E t \in Threads :
    /\ done[t].name = "synthesize_tts"
    /\ done[t].text = Str(<<" ">>)
    /\ done[t].art.kind = "wav"
    /\ FileSize(done[t].art.file) = 44 + 2 * 85995
    /\ tts_system = None

\* the samples of a written WAV, read back from the file: what follows the
\* first 44 bytes, two bytes a sample
DataBytes(file) == FileSize(file) - 44
Clamp(x, lo, hi) == Max(lo, Min(x, hi))

\* C8: the silent WAV lasts clamp(0.1 * len(text), 1.0, 5.0) seconds at
\* 22050 Hz, so at least one second.
C8_DurationClamp ==
  \A t \in Threads :
    (done[t].name = "create_fallback_audio" /\ done[t].art.kind = "wav") =>
      DataBytes(done[t].art.file) =
        2 * Clamp(2205 * Len(done[t].text.s), 22050, 110250)

\* C9: the silent WAV is 44 single header bytes (RIFF, 36 + data size, WAVE,
\* fmt , 16, PCM 1, 1 channel, 22050 Hz, byte rate 44100, block align 2,
\* 16 bits, data, data size) followed by data-size zero bytes, data size
\* being two bytes for each of min(2205 * len(text), 110250) samples.
HeaderBytes(file) == [i \in 1..44 |-> file[i].b]
C9_Header ==
  \A t \in Threads :
    done[t].art.kind = "wav" =>
      LET file == done[t].art.file
          size == 2 * Min(2205 * Len(done[t].art.text.s), 110250)
          h == HeaderBytes(file)
      IN  /\ Len(file) >= 44
          /\ \A i \in 1..44 : file[i].n = 1
          /\ SubSeq(h, 1, 4) = RIFF
          /\ from_bytes(SubSeq(h, 5, 8)) = 36 + size
          /\ SubSeq(h, 9, 12) = WAVE
          /\ SubSeq(h, 13, 16) = FMT_
          /\ from_bytes(SubSeq(h, 17, 20)) = 16
          /\ from_bytes(SubSeq(h, 21, 22)) = 1
          /\ from_bytes(SubSeq(h, 23, 24)) = 1
          /\ from_bytes(SubSeq(h, 25, 28)) = 22050
          /\ from_bytes(SubSeq(h, 29, 32)) = 44100
          /\ from_bytes(SubSeq(h, 33, 34)) = 2
          /\ from_bytes(SubSeq(h, 35, 36)) = 16
          /\ SubSeq(h, 37, 40) = DATA
          /\ from_bytes(SubSeq(h, 41, 44)) = size
          /\ \A i \in 45..Len(file) : file[i].b = 0
          /\ DataBytes(file) = size
C9_Witness ==
  \E t \in Threads :
    /\ done[t].name = "create_fallback_audio"
    /\ done[t].art.kind = "wav"
    /\ Len(done[t].text.s) = 11
    /\ FileSize(done[t].art.file) = 44 + 48510

\* C10: synthesize_tts returns None exactly when create_fallback_audio ran,
\* the remote service failed and the WAV could not be written; a failure of
\* the remote service alone still gives the silent WAV.
C10_NoneOnlyOnWriteFailure ==
  \A t \in Threads :
    done[t].name = "synthesize_tts" =>
      /\ done[t].art.kind = "None" <=>
           (done[t].fb.called /\ done[t].fb.gtts # "ok" /\ done[t].fb.disk # "ok")
      /\ (done[t].fb.called /\ done[t].fb.gtts # "ok" /\ done[t].fb.disk = "ok")
           => done[t].art.kind = "wav"
C10_Witness ==
  \E t \in Threads :
    /\ done[t].name = "synthesize_tts"
    /\ done[t].fb.called
    /\ done[t].fb.gtts = "Exception"
    /\ done[t].fb.disk = "ok"
    /\ done[t].art.kind = "wav"

\* C11: when the resolved backend raises during generation, synthesize_tts
\* returns what create_fallback_audio(text) gives and clone_voice_from_audio
\* returns what synthesize_tts(text) gives; the exception never reaches the
\* caller.
C11_BackendExceptionsCaught ==
  \A t \in Threads :
    /\ ~done[t].raised
    /\ (done[t].name = "synthesize_tts" /\ done[t].answer = "raise") =>
         /\ done[t].fb.called
         /\ done[t].fb.text = done[t].text
         /\ done[t].art = create_fallback_audio(done[t].text, done[t].fb.gtts,
                                                done[t].fb.disk)
    /\ (done[t].name = "clone_voice_from_audio" /\ done[t].canswer = "raise") =>
         done[t].art = synthesize_voice(done[t].text, DefaultLabel, done[t].init,
                                        done[t].answer, done[t].fb.gtts,
                                        done[t].fb.disk).art
C11_Witness ==
  \E t \in Threads :
    /\ done[t].name = "clone_voice_from_audio"
    /\ done[t].canswer = "raise"
    /\ done[t].answer = "raise"
    /\ done[t].gen = "coqui"
    /\ done[t].art.kind = "wav"

\* C12: the synthesize button's call, with a voice selection and the seven
\* generation parameters, is accepted: for a non-blank text it ends without an
\* error, having gone through synthesize_tts, and gives an artifact unless the
\* fallback itself could not write one.
C12_ParametersAccepted ==
  \A t \in Threads :
    (done[t].name = "synthesize_with_status" /\ ~IsBlank(done[t].text)) =>
      /\ done[t].error = ""
      /\ done[t].resolved
      /\ done[t].art.kind = "None" => done[t].fb.called

\* p is a prefix of s
IsPrefix(p, s) == Len(p) <= Len(s) /\ \A i \in 1..Len(p) : p[i] = s[i]

\* C13: voice resolution never raises; the sentinel, an empty label and a
\* label that no voice's name is a prefix of give catalog[0]; any other label
\* gives a voice whose name is a prefix of it, so the catalog [Ava, Ben] with
\* the label "Ava (en) - female" gives Ava.
C13_VoiceResolution ==
  (inputs.name = "select_voice" /\ output.returned) =>
    LET voices == inputs.voices
        label == inputs.voice_selection
        matching == {i \in 1..Len(voices) :
                       ~label.none /\ IsPrefix(voice_name(voices, i), label.s)}
    IN  /\ ~output.raised
        /\ IF label = DefaultLabel \/ label.none \/ label.s = <<>> \/ matching = {}
             THEN output.voice = voices[1]
             ELSE \E i \in matching : output.voice = voices[i]
        /\ (voices = SampleCatalog /\ label = Str(Ava \o <<" ", "(", "e", "n", ")", " ", "-", " ", "f", "e", "m", "a", "l", "e">>))
             => output.voice = SampleCatalog[1]
C13_Witness ==
  /\ inputs.name = "select_voice"
  /\ output.returned
  /\ inputs.voices = <<SampleCatalog[2], SampleCatalog[1]>>
  /\ inputs.voice_selection = Str(Ava \o <<" ", "(", "e", "n", ")", " ", "-", " ", "f", "e", "m", "a", "l", "e">>)
  /\ output.voice = SampleCatalog[1]

\* what synthesize_tts(text) with the default voice selection returns when
\* initialize_tts() gives r and the backend and the fallback answer as given
synthesize_default(text, r, gen, gtts, disk) ==
  IF IsBlank(text) THEN create_fallback_audio(Guidance, gtts, disk)
  ELSE synthesize_voice(text, DefaultLabel, r, gen, gtts, disk).art

\* C14: clone_voice_from_audio with no reference path, or with the path of no
\* file, raises nothing and returns exactly what synthesize_tts(text) with the
\* default voice selection returns for the same text and cache.
C14_MissingReference ==
  \A t \in Threads :
    (done[t].name = "clone_voice_from_audio" /\ done[t].ref \in {"None", "missing"}) =>
      /\ ~done[t].raised
      /\ done[t].art = synthesize_default(done[t].text, done[t].init, done[t].answer,
                                          done[t].fb.gtts, done[t].fb.disk)
\* the same for the texts synthesize_tts does not reject
C14_MissingReferenceNonBlank ==
  \A t \in Threads :
    (/\ done[t].name = "clone_voice_from_audio"
     /\ done[t].ref \in {"None", "missing"}
     /\ ~IsBlank(done[t].text)) =>
      /\ ~done[t].raised
      /\ done[t].canswer = "none"
      /\ done[t].art = synthesize_default(done[t].text, done[t].init, done[t].answer,
                                          done[t].fb.gtts, done[t].fb.disk)

\* C15: convert with no input audio gives an explicit failure and invokes no
\* backend: the UI wrapper returns no artifact with an error text, the job
\* handler an error dict with no audio.
C15_ConvertMissingInput ==
  output.returned =>
    /\ (inputs.name = "safe_convert_voice" /\ inputs.input_audio \in {"None", ""}) =>
         /\ output.value.artifact = "None"
         /\ output.value.message = "Error: Please provide input audio to convert"
         /\ ~output.value.generated
    /\ (/\ inputs.name = "voice_conversion"
        /\ inputs.job_input \cap {"input_audio_url", "input_audio_base64"} = {}) =>
         /\ output.value.error # ""
         /\ ~output.value.audio
         /\ ~output.value.generated
         /\ output.value.files = <<>>
C15_Witness ==
  /\ output.returned
  /\ inputs.name = "voice_conversion"
  /\ inputs.vc_model = "ChatterboxVC"
  /\ inputs.job_input = {"target_voice_url"}
  /\ inputs.answers.generate = "ok"
  /\ output.value.error = "No input audio provided"

\* the error strings of transcribe_audio
IsErrorText(result) ==
  result \in {"Error: Whisper model failed to load", "Error transcribing audio: exception"}

\* C16: transcribe_audio never raises; with no model loaded it returns the
\* load-failure error string without touching the audio, and when the model
\* raises it returns an error string as its text.
C16_TranscribeNeverRaises ==
  transcribed.name = "transcribe_audio" =>
    /\ ~transcribed.raised
    /\ model = "None" =>
         /\ transcribed.result = "Error: Whisper model failed to load"
         /\ ~transcribed.touched
    /\ model # "None" =>
         /\ transcribed.touched
         /\ transcribed.result \in {"hello", "", "Error transcribing audio: exception"}
    /\ ~transcribed.touched => IsErrorText(transcribed.result)
C16_Witness ==
  /\ transcribed.name = "transcribe_audio"
  /\ model = "tiny/cpu"
  /\ whisper_env.device = "cuda"
  /\ transcribed.touched
  /\ transcribed.result = "Error transcribing audio: exception"

\* the error texts that name rate limiting
RateLimitTexts == {TooManyRequests, RateLimitExceeded, RateLimitReached}
RECURSIVE SumSeq(_)
SumSeq(q) == IF q = <<>> THEN 0 ELSE Head(q) + SumSeq(Tail(q))

\* C17: a construction that fails twice with a rate-limit error and succeeds
\* the third time makes download_chatterbox_models return True after exactly
\* three attempts and two waits, of 30 s and then 60 s, 90 s in all.
C17_RetryThenSucceed ==
  (/\ dl_pc = "done"
   /\ dl_env.import = "ok"
   /\ dl_env.errors[1] \in RateLimitTexts
   /\ dl_env.errors[2] \in RateLimitTexts
   /\ dl_env.errors[3] = NoError) =>
     /\ dl_result = "True"
     /\ constructed = 3
     /\ slept = <<30, 60>>
     /\ SumSeq(slept) = 90
C17_Witness ==
  /\ dl_pc = "done"
  /\ dl_env.errors = <<TooManyRequests, RateLimitExceeded, NoError>>
  /\ dl_result = "True"
  /\ slept = <<30, 60>>

\* C18: a construction failure whose text has neither "429" nor "rate limit"
\* in it is not retried: no attempt follows it, no wait is made for it and
\* the function returns False; when it is the first attempt that fails so,
\* exactly one attempt is made and nothing is waited for.
C18_NoRetryOnOtherErrors ==
  \A i \in 1..max_retries :
    (/\ dl_pc = "done"
     /\ constructed >= i
     /\ dl_env.errors[i] \in ErrorTexts \ RateLimitTexts) =>
       /\ constructed = i
       /\ Len(slept) = i - 1
       /\ dl_result = "False"
       /\ i = 1 => (constructed = 1 /\ slept = <<>>)
C18_Witness ==
  /\ dl_pc = "done"
  /\ dl_env.errors[1] = ConnectionReset
  /\ dl_env.errors[2] = NoError
  /\ constructed = 1
  /\ slept = <<>>
  /\ dl_result = "False"

\* C19: POST /synthesize with an empty or whitespace-only text and
\* POST /transcribe with an upload that is not audio are answered with status
\* 400, and no backend is called for them.
C19_ValidationGives400 ==
  output.returned =>
    /\ (inputs.name = "POST /synthesize" /\ IsBlank(inputs.text)) =>
         /\ output.value.status = 400
         /\ ~output.value.backend
    /\ (/\ inputs.name = "POST /transcribe"
        /\ ~IsPrefix(<<"a", "u", "d", "i", "o", "/">>, inputs.content_type)) =>
         /\ output.value.status = 400
         /\ ~output.value.backend

\* C20: when synthesize_tts, clone_voice_from_audio or create_fallback_audio
\* has returned, the temporary files the call made and left behind (the code
\* unlinks none) are the returned one alone, or none when it returned None.
C20_OnlyReturnedFileRemains ==
  \A t \in Threads :
    done[t].name \in {"synthesize_tts", "clone_voice_from_audio", "create_fallback_audio"}
      => done[t].created = IF done[t].art.kind = "None" THEN <<>>
                           ELSE <<done[t].art.kind>>

\* C21: after any job handled by the serverless handler, whether it ends in a
\* result or in an error dict, none of the temporary files made for the job
\* (fetched input, reference or target audio, the output WAV) is left on disk.
C21_NoTemporaryFileRemains ==
  (inputs.name = "handler" /\ output.returned /\ ~output.value.raised) => output.value.value.files = <<>>

\* C24: in the handler's text_to_speech, text that is empty or only whitespace
\* never reaches tts_model.generate.
C24_BlankTextNotGenerated ==
  (/\ inputs.name = "handler"
   /\ output.returned
   /\ output.value.ran = "text_to_speech"
   /\ inputs.job.input = "dict"
   /\ inputs.job.dict.hasText
   /\ IsBlank(inputs.job.dict.text))
    => ~output.value.value.generated

\* C30: handler never raises: every job gets a dict that is a result or holds
\* an error text; a missing task runs text_to_speech, an unknown task type
\* gets an error naming it, and with the task's model unavailable the error
\* comes before any input is downloaded or decoded.
C30_HandlerNeverRaises ==
  (inputs.name = "handler" /\ output.returned) =>
    LET r == output.value
        m == inputs.models
    IN  /\ ~r.raised
        /\ r.value.audio <=> r.value.error = ""
        /\ (inputs.job.input = "absent" \/ inputs.job.dict.task = "absent")
             => r.ran = "text_to_speech"
        /\ (inputs.job.input = "dict" /\ inputs.job.dict.task = "sing")
             => r.value.error = "Unknown task type: sing"
        /\ (\/ r.ran = "text_to_speech" /\ m.tts_model = "None"
            \/ r.ran = "voice_conversion" /\ m.vc_model = "None"
            \/ r.ran = "speech_to_text" /\ m.whisper_model = "None")
             => (r.value.error # "" /\ ~r.value.fetched /\ ~r.value.generated)

\* C22: candidates are attempted strictly in priority order and resolution
\* stops at the first success: what initialize_tts attempted is a prefix of
\* the candidate list, nothing is constructed after a success, and the cached
\* backend is the highest-priority candidate that can be constructed.
C22_FirstConstructible ==
  \A t \in Threads :
    (done[t].name = "initialize_tts" /\ done[t].attempted # <<>>)
      => LET a == done[t].attempted
             ok == {i \in 1..Len(Candidates) : env[Candidates[i]] = "ok"}
         IN  /\ Len(a) <= Len(Candidates)
             /\ \A i \in 1..Len(a) : a[i] = Candidates[i]
             /\ \A i \in 1..(Len(a) - 1) : env[a[i]] # "ok"
             /\ ok # {} =>
                  \E i \in ok :
                    /\ \A j \in ok : i <= j
                    /\ Len(a) = i
                    /\ tts_system.kind = KindOf(Candidates[i])
                    /\ done[t].init.tts = tts_system

\* C23: when a backend is resolved and its voice catalog is empty,
\* synthesize_tts of a non-empty text never raises and generates with that
\* backend (its default voice), not with the fallback.
C23_EmptyCatalogGenerates ==
  \A t \in Threads :
    (/\ done[t].name = "synthesize_tts"
     /\ ~IsBlank(done[t].text)
     /\ done[t].init.tts # None
     /\ done[t].init.voices = <<>>)
      => /\ ~done[t].raised
         /\ done[t].gen # "none"
         /\ done[t].answer = "ok" => ~done[t].fb.called

\* C25: once the cache holds a resolved backend, a synthesize_tts or
\* clone_voice_from_audio call (succeeding, falling back or hitting a backend
\* exception) leaves the cached backend and voice catalog as they were, and
\* the next initialize_tts() returns the same pair without a new attempt.
C25_CallsKeepCache ==
  \A t \in Threads :
    /\ (/\ done[t].name \in {"synthesize_tts", "clone_voice_from_audio"}
        /\ done[t].init.tts # None)
         => /\ tts_system = done[t].init.tts
            /\ available_voices = done[t].init.voices
    /\ (/\ prev[t].name \in {"synthesize_tts", "clone_voice_from_audio"}
        /\ prev[t].init.tts # None
        /\ done[t].resolved)
         => /\ done[t].init = prev[t].init
            /\ done[t].attempted = <<>>
C25_Witness ==
  \E t \in Threads :
    /\ prev[t].name = "clone_voice_from_audio"
    /\ prev[t].init.tts # None
    /\ done[t].name = "synthesize_tts"
    /\ done[t].resolved
    /\ done[t].answer = "raise"
    /\ done[t].init = prev[t].init

\* C26: the retry loop of download_chatterbox_models always terminates, after
\* at most 3 construction attempts and at most 2 waits; when the third attempt
\* also fails with a rate-limit error there is no further wait and the
\* function returns False.
C26_Bounded ==
  /\ constructed <= max_retries
  /\ Len(slept) <= max_retries - 1
  /\ (/\ dl_pc = "done"
      /\ dl_env.import = "ok"
      /\ \A i \in 1..max_retries : dl_env.errors[i] \in RateLimitTexts)
       => /\ dl_result = "False"
          /\ constructed = max_retries
          /\ slept = <<wait_time(0), wait_time(1)>>
RECURSIVE Count(_, _)
Count(a, c) ==
  IF a = <<>> THEN 0 ELSE (IF Head(a) = c THEN 1 ELSE 0) + Count(Tail(a), c)

\* C27: in initialize_tts a rate-limit failure of the top-priority hub-backed
\* candidate is retried (up to 3 attempts) before the chain advances to the
\* next candidate, and every other candidate is attempted exactly once.
C27_InteractiveRetry ==
  \A t \in Threads :
    (/\ done[t].name = "initialize_tts"
     /\ done[t].attempted # <<>>
     /\ env["Method1"] = "HTTP 429")
      => LET a == done[t].attempted
         IN  /\ Count(a, "Method1") = max_retries
             /\ Count(a, "Method2") = 1
             /\ \A c \in CandidateSet \ {"Method1"} : Count(a, c) <= 1

WhisperOrder ==
  IF whisper_env.device = "cuda" THEN <<"base/cuda", "base/cpu", "tiny/cpu">>
  ELSE <<"base/cpu", "tiny/cpu">>
WhisperLoads(c) ==
  CASE c = "base/cuda" -> whisper_env.base_cuda = "ok"
    [] c = "base/cpu" -> whisper_env.base_cpu = "ok"
    [] c = "tiny/cpu" -> whisper_env.tiny_cpu = "ok"

\* C29: Whisper loading at import tries its candidates in order (base on CUDA
\* when CUDA is available, base on CPU, tiny on CPU), absorbs each failure,
\* keeps the first that loads, leaves model = None only if every applicable
\* candidate failed, and never raises out of the module.
C29_WhisperLoading ==
  /\ whisper_pc # "raised"
  /\ Len(whisper_tried) <= Len(WhisperOrder)
  /\ \A i \in 1..Len(whisper_tried) :
       /\ whisper_tried[i] = WhisperOrder[i]
       /\ i < Len(whisper_tried) => ~WhisperLoads(whisper_tried[i])
  /\ whisper_pc = "loaded" =>
       LET ok == {i \in 1..Len(WhisperOrder) : WhisperLoads(WhisperOrder[i])}
       IN  /\ ok = {} => (model = "None" /\ whisper_tried = WhisperOrder)
           /\ ok # {} => \E i \in ok :
                           /\ \A j \in ok : i <= j
                           /\ model = WhisperOrder[i]
                           /\ Len(whisper_tried) = i
C29_Witness ==
  /\ whisper_pc = "loaded"
  /\ whisper_env.device = "cuda"
  /\ whisper_tried = <<"base/cuda", "base/cpu", "tiny/cpu">>
  /\ model = "None"

\* C35: in the handler's initialize_models the three loads are independent: a
\* failed load sets only its own model to None, every load is attempted
\* whatever the earlier ones did, each load's outcome is its own, and
\* initialize_models never raises.
C35_IndependentLoads ==
  (inputs.name = "initialize_models" /\ output.returned) =>
    LET r == output.value
        e == inputs.loads
    IN  /\ ~r.raised
        /\ r.attempted = <<"ChatterboxTTS", "ChatterboxVC", "WhisperModel">>
        /\ r.tts_model = (IF e.tts = "ok" THEN "ChatterboxTTS" ELSE "None")
        /\ r.vc_model = (IF e.vc = "ok" THEN "ChatterboxVC" ELSE "None")
        /\ r.whisper_model = (IF e.whisper = "ok" THEN "WhisperModel" ELSE "None")
C35_Witness ==
  /\ inputs.name = "initialize_models"
  /\ output.returned
  /\ inputs.loads.tts = "raise"
  /\ inputs.loads.vc = "ImportError"
  /\ output.value.tts_model = "None"
  /\ output.value.whisper_model = "WhisperModel"

\* C31: two concurrent seeded text_to_speech requests never interleave their
\* seeding and generation: from a request's reseeding of the generators to the
\* end of its generate call no other request has reseeded or is generating, so
\* the request generates from its own seed; a request with seed 0 never
\* reseeds.
C31_SeededSection ==
  \A r \in Requests :
    /\ req_seed[r] = 0 => ~reseeded[r]
    /\ (req_seed[r] # 0 /\ req_pc[r] \in {"L126", "generating"}) =>
         /\ rng = req_seed[r]
         /\ \A q \in Requests \ {r} :
              /\ req_pc[q] # "generating"
              /\ req_pc[q] = "L126" => req_seed[q] = 0

\* C32: reference audio larger than 50 MB is rejected before any processing:
\* the caller gets a rejection, no temporary file is written for the
\* reference and no backend call is made.
C32_LargeReferenceRejected ==
  (/\ inputs.name = "handler"
   /\ output.returned
   /\ output.value.ran = "text_to_speech"
   /\ inputs.job.dict.keys \cap TtsKeys # {}
   /\ inputs.job.dict.ref_size = "51 MB"
   /\ inputs.models.tts_model # "None"
   /\ inputs.job.dict.hasText
   /\ truthy(inputs.job.dict.text))
    => /\ output.value.value.error # ""
       /\ ~output.value.value.fetched
       /\ ~output.value.value.generated

\* C33: label round-trip: the label get_voice_options builds for a catalog
\* entry, passed back to synthesize_tts as the voice selection, resolves to
\* the entry it was built from (also when one name is a prefix of another or a
\* name is empty).
C33_LabelRoundTrip ==
  (inputs.name = "get_voice_options" /\ output.returned) =>
    /\ ~output.raised
    /\ output.voice = inputs.voices[inputs.entry]

\* C34: main() of the pre-download script returns exit code 0 only if at least
\* one model was actually downloaded; when the ChatterboxTTS download, every
\* Whisper size and the ChatterboxVC download all fail it returns 1.
C34_ExitCode ==
  output.returned =>
    /\ output.value.code \in {0, 1}
    /\ output.value.code = 0 => output.value.downloaded # {}

====
